---- MODULE Spec2Model ----
(***************************************************************************)
(* Model of the parking bot's time-accounting engine:                      *)
(*   - Utils.calculateDayNightSplit            (the interval splitter)     *)
(*   - Database (parking_records / monthly_totals), called through its     *)
(*     methods and statement by statement                                  *)
(*   - ParkingBot and the handlers it sets up: handleStart, handleCurrent, *)
(*     handleHistory, handleRecent, handleHelp, handleReset with its       *)
(*     callback_query listener, handlePhoto and handleDocument             *)
(*   - GeminiParser.parseTimeRange and ParkingBot.init                     *)
(* Instants are timezone-naive local instants, counted in seconds since    *)
(* 2025-01-01T00:00:00 local time (a fixed-offset local clock).            *)
(***************************************************************************)
EXTENDS Integers, Sequences, FiniteSets, TLC

----------------------------------------------------------------------------
(* Time units and the calendar                                             *)

SecPerMinute == 60
SecPerHour == 3600
SecPerDay == 86400
DayStartHour == 8
MidnightHour == 24
BaseYear == 2025

\* Date.prototype.getHours / getMinutes on a local instant
getHours(t) == (t % SecPerDay) \div SecPerHour
getMinutes(t) == (t % SecPerHour) \div SecPerMinute

\* Date.prototype.setHours(h, 0, 0, 0): same local day, clock set to h:00:00
\* (h = 24 rolls over to the next local midnight)
setHours(t, h) == (t \div SecPerDay) * SecPerDay + h * SecPerHour

----------------------------------------------------------------------------
(* Utils.calculateDayNightSplit                                            *)

\* mutant: the boundary is 08:00 of the current day at any hour
NextBoundaryAlwaysEight(current) == setHours(current, DayStartHour)

\* lines 52-60: the next bucket boundary after `current`
NextBoundary(current) ==
    IF getHours(current) >= DayStartHour
    THEN setHours(current, MidnightHour)
    ELSE setHours(current, DayStartHour)

\* mutant: the boundary is never clamped to the end of the interval
ClampToEndNoClamp(nextBoundary, end) == nextBoundary

\* lines 62-65: don't go past end time
ClampToEnd(nextBoundary, end) ==
    IF nextBoundary > end THEN end ELSE nextBoundary

\* mutant: Math.ceil in place of Math.floor
minutesInPeriodCeil(nextBoundary, current) ==
    (nextBoundary - current + SecPerMinute - 1) \div SecPerMinute

\* line 68: Math.floor((nextBoundary - current) / (1000 * 60))
minutesInPeriod(nextBoundary, current) ==
    (nextBoundary - current) \div SecPerMinute

\* mutant: the two buckets are swapped
AccumulateSwapped(currentHour, mins, dayMinutes, nightMinutes) ==
    IF currentHour >= DayStartHour
    THEN [dayMinutes |-> dayMinutes, nightMinutes |-> nightMinutes + mins]
    ELSE [dayMinutes |-> dayMinutes + mins, nightMinutes |-> nightMinutes]

\* mutant: the hour 08 itself is accumulated into the night bucket
AccumulateStrict(currentHour, mins, dayMinutes, nightMinutes) ==
    IF currentHour > DayStartHour
    THEN [dayMinutes |-> dayMinutes + mins, nightMinutes |-> nightMinutes]
    ELSE [dayMinutes |-> dayMinutes, nightMinutes |-> nightMinutes + mins]

\* lines 70-74: add the period to the bucket of the current hour
Accumulate(currentHour, mins, dayMinutes, nightMinutes) ==
    IF currentHour >= DayStartHour
    THEN [dayMinutes |-> dayMinutes + mins, nightMinutes |-> nightMinutes]
    ELSE [dayMinutes |-> dayMinutes, nightMinutes |-> nightMinutes + mins]

\* lines 48-76: one iteration of the while loop
LoopBody(current, end, dayMinutes, nightMinutes) ==
    LET nextBoundary == ClampToEnd(NextBoundary(current), end)
        acc == Accumulate(getHours(current),
                          minutesInPeriod(nextBoundary, current),
                          dayMinutes, nightMinutes)
    IN [current |-> nextBoundary,
        dayMinutes |-> acc.dayMinutes,
        nightMinutes |-> acc.nightMinutes]

\* lines 79-83: the returned object
SplitResult(dayMinutes, nightMinutes) ==
    [dayMinutes |-> dayMinutes,
     nightMinutes |-> nightMinutes,
     totalMinutes |-> dayMinutes + nightMinutes]

\* mutant: the loop runs until current equals end
LoopContinuesUnequal(current, end) == current # end

\* mutant: the loop also runs when current has reached end
LoopContinuesInclusive(current, end) == current <= end

\* line 47: the loop condition, current < end
LoopContinues(current, end) == current < end

RECURSIVE SplitLoop(_, _, _, _)
\* lines 47-77: while (current < end) { ... }
SplitLoop(current, end, dayMinutes, nightMinutes) ==
    IF LoopContinues(current, end)
    THEN LET s == LoopBody(current, end, dayMinutes, nightMinutes)
         IN SplitLoop(s.current, end, s.dayMinutes, s.nightMinutes)
    ELSE SplitResult(dayMinutes, nightMinutes)

\* lines 38-84
calculateDayNightSplit(startDateTime, endDateTime) ==
    SplitLoop(startDateTime, endDateTime, 0, 0)

----------------------------------------------------------------------------
(* State: the bot and its store, and the splitter run as a loop            *)

VARIABLES
    parking_records,  \* rows of the parking_records table
    monthly_totals,   \* rows of the monthly_totals table
    lastID,           \* AUTOINCREMENT counter of parking_records
    isProcessing,     \* ParkingBot.isProcessing: userId -> boolean
    hp,               \* per user: where its handlePhoto invocation stands
    lastAnswer,       \* the answer sent by the step just taken, if any
    requests,         \* reset requests: message, once-listener, reset call
    tick,             \* wall clock position
    photos,           \* photo messages dispatched so far
    busy,             \* per user: "still processing" sends not yet settled
    faults            \* awaited calls that have been rejected so far

botVars == <<parking_records, monthly_totals, lastID, isProcessing, hp,
             lastAnswer, requests, tick, photos, busy, faults>>

storeVars == <<parking_records, monthly_totals, lastID>>

\* calculateDayNightSplit's locals, one action per loop iteration
VARIABLES sStart, sEnd, sCurrent, sDay, sNight, sIter, sPc

splitVars == <<sStart, sEnd, sCurrent, sDay, sNight, sIter, sPc>>

\* the media-group coordinator and processBatch
VARIABLES
    mgItems,    \* per group: the items accumulated and not yet handed off
    mgTimer,    \* per group: ms left of the debounce window, -1 when unset
    mgQuiet,    \* per group: ms since the group's last arrival
    mgArrived,  \* per group: number of items that have arrived
    mgHanded,   \* per group: number of items handed to processing
    bItems,     \* processBatch: the items still to be processed
    bCount,     \* processBatch: succeeded, duplicates, failed
    bPc,        \* processBatch: "idle", "run" or "done"
    bSummary    \* the answer to the hand-off just taken, if any

batchVars == <<mgItems, mgTimer, mgQuiet, mgArrived, mgHanded,
               bItems, bCount, bPc, bSummary>>

\* a getMonthlyHistory call: the chat asked for and the rows returned
VARIABLES hChat, hHistory, hPc

historyVars == <<hChat, hHistory, hPc>>

\* a parseTimeRange call: the extractor's response and the value returned
VARIABLES pResponse, pResult, pPc

parseVars == <<pResponse, pResult, pPc>>

\* ParkingBot.init: the step reached and the component whose
\* initialization failed
VARIABLES stPc, stFailed

startVars == <<stPc, stFailed>>

queryVars == <<historyVars, parseVars, startVars>>

\* Database called through its methods, one call at a time per caller
VARIABLES
    db,         \* per caller: the method called, its arguments, the
                \* statement it is at and what it has resolved with
    callLog,    \* whether the calls so far have run one after the other,
                \* and whether resetCurrentMonth was among them
    removed     \* the sessions a completed resetCurrentMonth has removed and
                \* whose month has had no session added since

callVars == <<db, callLog, removed>>

VARIABLES
    commands,   \* the invocations of handleStart, handleCurrent,
                \* handleHistory, handleRecent, handleHelp and of
                \* handleDocument for a file that is no image
    submitted   \* the (chat, plate, start instant) that handlePhoto has
                \* handed to addParkingRecord so far

auxVars == <<queryVars, callVars, commands, submitted>>

vars == <<botVars, splitVars, batchVars, auxVars>>

----------------------------------------------------------------------------
(* The splitter run as a loop                                              *)

\* bounds of the splitter inputs
MaxSpanDays == 2
MaxStartDay == 1

ClockTimes ==
    { h * SecPerHour + m * SecPerMinute + s :
        h \in {0, 7, 8, 12, 22, 23}, m \in {0, 35, 59}, s \in {0, 30} }

SplitStarts ==
    { d * SecPerDay + c : d \in 0..MaxStartDay, c \in ClockTimes }

SplitLengths ==
    { 0, 30, 60, 90, 25 * SecPerMinute, 85 * SecPerMinute,
      145 * SecPerMinute, 300 * SecPerMinute,
      8 * SecPerHour, 16 * SecPerHour }
    \cup { d * SecPerDay + e : d \in 1..MaxSpanDays, e \in {0, 30, 60} }

SplitIdle ==
    /\ sStart = 0 /\ sEnd = 0 /\ sCurrent = 0
    /\ sDay = 0 /\ sNight = 0 /\ sIter = 0 /\ sPc = "off"

\* lines 39-45: start, end, the zeroed buckets and current = start
SplitEnter ==
    /\ sStart \in SplitStarts
    /\ \E len \in SplitLengths : sEnd = sStart + len
    /\ sCurrent = sStart
    /\ sDay = 0 /\ sNight = 0 /\ sIter = 0
    /\ sPc = "loop"

\* lines 47-77: one pass through the loop body
SplitIterate ==
    /\ sPc = "loop"
    /\ LoopContinues(sCurrent, sEnd)
    /\ LET s == LoopBody(sCurrent, sEnd, sDay, sNight)
       IN /\ sCurrent' = s.current
          /\ sDay' = s.dayMinutes
          /\ sNight' = s.nightMinutes
    /\ sIter' = sIter + 1
    /\ UNCHANGED <<sStart, sEnd, sPc>>
    /\ UNCHANGED <<botVars, batchVars, auxVars>>

\* lines 47, 79-83: the loop condition fails and the result is returned
SplitReturn ==
    /\ sPc = "loop"
    /\ ~LoopContinues(sCurrent, sEnd)
    /\ sPc' = "done"
    /\ UNCHANGED <<sStart, sEnd, sCurrent, sDay, sNight, sIter>>
    /\ UNCHANGED <<botVars, batchVars, auxVars>>


----------------------------------------------------------------------------
(* The calendar: Date.prototype.getMonth / getFullYear on a local instant  *)

DaysPerYear == 365

\* days before the first of each month of a non-leap year (2025..2027)
CumDays == <<0, 31, 59, 90, 120, 151, 181, 212, 243, 273, 304, 334, 365>>

\* new Date(year 2025, month, day, hour, minute) as a local instant
At(month, day, hour, minute) ==
    (CumDays[month] + day - 1) * SecPerDay + hour * SecPerHour
        + minute * SecPerMinute

\* getMonth() + 1
MonthOf(t) ==
    LET d == (t \div SecPerDay) % DaysPerYear
    IN CHOOSE m \in 1..12 : CumDays[m] <= d /\ d < CumDays[m + 1]

\* getFullYear()
YearOf(t) == BaseYear + (t \div SecPerDay) \div DaysPerYear

\* whole minutes between two instants, taken over the whole interval
MinutesBetween(start, end) == (end - start) \div SecPerMinute

----------------------------------------------------------------------------
(* The inputs: chats, users, and the values of timeData                    *)

Chats == {"c1", "c2"}
Users == {"u1", "u2"}

\* c1 is a group chat of both users, c2 a chat of u1 alone
Members == [c \in Chats |-> IF c = "c1" THEN {"u1", "u2"} ELSE {"u1"}]

\* what sqlite3 binds in place of a JavaScript undefined or NaN, and what a
\* column holds then: the SQL NULL
NULL == 0 - 1

\* bot.js lines 642, 657-661: the fields of timeData that handlePhoto reads
Ticket(plate, start, end, minutes) ==
    [visitorName |-> "Unknown",
     carPlate |-> plate,
     startDateTime |-> start,
     endDateTime |-> end,
     durationMinutes |-> minutes]

\* geminiParser.js lines 76-85: the success object of parseTimeRange has the
\* members visitorName, carPlate, startTime, endTime, durationMinutes,
\* durationFormatted, confidence and success; handlePhoto reads its
\* startDateTime and endDateTime, which it does not have: they are undefined
ParsedTicket == Ticket("ABC123", NULL, NULL, 145)

NoTicket == Ticket("", 0, 0, 0)

\* the number of characters that OCR reads from a photo
OcrLengths == {0, 4, 5}

\* wall clock: the instants at which `new Date()` is read
ClockStart == At(8, 25, 12, 0)
ClockStepDays == 9
Clock(k) == ClockStart + k * ClockStepDays * SecPerDay

\* sessions as a caller of Database states them, with both instants:
\* ABC123, 2025-08-23T22:35 .. 2025-08-24T01:00
TicketA == Ticket("ABC123", At(8, 23, 22, 35), At(8, 24, 1, 0),
                  MinutesBetween(At(8, 23, 22, 35), At(8, 24, 1, 0)))
\* XYZ789, 2025-08-31T22:00 .. 2025-09-01T03:00 (ends in the next month)
TicketB == Ticket("XYZ789", At(8, 31, 22, 0), At(9, 1, 3, 0),
                  MinutesBetween(At(8, 31, 22, 0), At(9, 1, 3, 0)))
\* ABC123 again, 2025-09-02T07:30 .. 2025-09-02T09:00
TicketC == Ticket("ABC123", At(9, 2, 7, 30), At(9, 2, 9, 0),
                  MinutesBetween(At(9, 2, 7, 30), At(9, 2, 9, 0)))
\* DEF456, 2025-08-25T08:00 .. 2025-08-25T08:00, a session of no length
TicketZ == Ticket("DEF456", At(8, 25, 8, 0), At(8, 25, 8, 0), 0)

----------------------------------------------------------------------------
(* Database: the two tables and their statements                           *)

ZeroTotal == [total |-> 0, day |-> 0, night |-> 0]

\* SQL addition: the sum is NULL when either operand is
SqlAdd(a, b) == IF a = NULL \/ b = NULL THEN NULL ELSE a + b

\* part_003 lines 219-223: `column || 0`, a NULL column is read as 0
OrZero(x) == IF x = NULL THEN 0 ELSE x

\* part_003 line 123: the session and the minutes that addParkingRecord is
\* called with, after chatId, userId and username
Arguments(timeData, dayMinutes, nightMinutes) ==
    [timeData |-> timeData,
     dayMinutes |-> dayMinutes,
     nightMinutes |-> nightMinutes]

\* part_003 lines 125-127: month and year of new Date(startDateTime), NaN
\* (bound as NULL) when startDateTime is undefined
StartMonth(timeData) ==
    IF timeData.startDateTime = NULL
    THEN NULL ELSE MonthOf(timeData.startDateTime)

StartYear(timeData) ==
    IF timeData.startDateTime = NULL
    THEN NULL ELSE YearOf(timeData.startDateTime)

\* part_003 lines 33-35, 38-39: start_datetime, end_datetime,
\* duration_minutes, month and year are NOT NULL; sqlite3 rejects the INSERT
\* of a row without one of them
NotNullViolated(timeData) ==
    \/ timeData.startDateTime = NULL
    \/ timeData.endDateTime = NULL
    \/ timeData.durationMinutes = NULL
    \/ StartMonth(timeData) = NULL
    \/ StartYear(timeData) = NULL

\* mutant: the month and the year are those of the wall clock at the INSERT
\* (addParkingRecord of src/src/database.js, lines 111-114)
RecordRowClockMonth(id, chatId, userId, timeData, dayMinutes, nightMinutes, createdAt) ==
    [id |-> id,
     chat_id |-> chatId,
     user_id |-> userId,
     visitor_name |-> timeData.visitorName,
     car_plate |-> timeData.carPlate,
     start_datetime |-> timeData.startDateTime,
     end_datetime |-> timeData.endDateTime,
     duration_minutes |-> timeData.durationMinutes,
     day_minutes |-> dayMinutes,
     night_minutes |-> nightMinutes,
     month |-> MonthOf(createdAt),
     year |-> YearOf(createdAt),
     created_at |-> createdAt]

\* lines 125-135, 40: the row INSERTed into parking_records; created_at is
\* the CURRENT_TIMESTAMP of the INSERT
RecordRow(id, chatId, userId, timeData, dayMinutes, nightMinutes, createdAt) ==
    [id |-> id,
     chat_id |-> chatId,
     user_id |-> userId,
     visitor_name |-> timeData.visitorName,
     car_plate |-> timeData.carPlate,
     start_datetime |-> timeData.startDateTime,
     end_datetime |-> timeData.endDateTime,
     duration_minutes |-> timeData.durationMinutes,
     day_minutes |-> dayMinutes,
     night_minutes |-> nightMinutes,
     month |-> StartMonth(timeData),
     year |-> StartYear(timeData),
     created_at |-> createdAt]

\* mutant: the duplicate check ignores the chat
checkDuplicateAnyChat(recs, chatId, carPlate, startDateTime) ==
    \E r \in recs :
        /\ startDateTime # NULL
        /\ r.car_plate = carPlate
        /\ r.start_datetime = startDateTime

\* lines 147-163: SELECT id ... WHERE chat_id = ? AND car_plate = ? AND
\* start_datetime = ? LIMIT 1, resolved as !!row
checkDuplicateRecord(recs, chatId, carPlate, startDateTime) ==
    \E r \in recs :
        /\ startDateTime # NULL          \* `= NULL` is true of no row
        /\ r.chat_id = chatId
        /\ r.car_plate = carPlate
        /\ r.start_datetime = startDateTime

\* the WHERE clause of every monthly_totals statement
TotalKeyIs(row, chatId, month, year) ==
    row.chat_id = chatId /\ row.month = month /\ row.year = year

\* lines 179-187: this.changes of the UPDATE
UpdateChanges(tots, chatId, month, year) ==
    Cardinality({ row \in tots : TotalKeyIs(row, chatId, month, year) })

\* mutant: the UPDATE adds the day minutes to the total duration only
UpdateTotalsDayOnly(tots, chatId, month, year, dayMinutes, nightMinutes) ==
    { IF TotalKeyIs(row, chatId, month, year)
      THEN [row EXCEPT
              !.total_duration_minutes = SqlAdd(@, dayMinutes),
              !.total_day_minutes = SqlAdd(@, dayMinutes),
              !.total_night_minutes = SqlAdd(@, nightMinutes)]
      ELSE row : row \in tots }

\* line 166: const totalMinutes = dayMinutes + nightMinutes, which is NaN
\* (bound as NULL) when the two are undefined
TotalMinutes(dayMinutes, nightMinutes) ==
    IF dayMinutes = NULL \/ nightMinutes = NULL
    THEN NULL
    ELSE dayMinutes + nightMinutes

\* lines 166, 179-187: UPDATE monthly_totals SET total_* = total_* + ?
UpdateTotals(tots, chatId, month, year, dayMinutes, nightMinutes) ==
    LET totalMinutes == TotalMinutes(dayMinutes, nightMinutes)
    IN { IF TotalKeyIs(row, chatId, month, year)
         THEN [row EXCEPT
                 !.total_duration_minutes = SqlAdd(@, totalMinutes),
                 !.total_day_minutes = SqlAdd(@, dayMinutes),
                 !.total_night_minutes = SqlAdd(@, nightMinutes)]
         ELSE row : row \in tots }

\* mutant: the created row takes the day minutes as its total duration
TotalRowDayOnly(chatId, month, year, dayMinutes, nightMinutes) ==
    [chat_id |-> chatId,
     month |-> month,
     year |-> year,
     total_duration_minutes |-> dayMinutes,
     total_day_minutes |-> dayMinutes,
     total_night_minutes |-> nightMinutes]

\* lines 166, 191-195: the row INSERTed into monthly_totals
TotalRow(chatId, month, year, dayMinutes, nightMinutes) ==
    [chat_id |-> chatId,
     month |-> month,
     year |-> year,
     total_duration_minutes |-> TotalMinutes(dayMinutes, nightMinutes),
     total_day_minutes |-> dayMinutes,
     total_night_minutes |-> nightMinutes]

\* line 53: UNIQUE(chat_id, month, year) rejects a second row of a key
UniqueViolation(tots, chatId, month, year) ==
    \E row \in tots : TotalKeyIs(row, chatId, month, year)

\* lines 203-231: the row of the month and year of `asked`, the instant at
\* which the call read the wall clock (lines 204-206), or zeros
getCurrentMonthTotal(tots, chatId, asked) ==
    LET month == MonthOf(asked)
        year == YearOf(asked)
    IN IF \E row \in tots : TotalKeyIs(row, chatId, month, year)
       THEN LET row == CHOOSE r \in tots : TotalKeyIs(r, chatId, month, year)
            IN [total |-> OrZero(row.total_duration_minutes),
                day |-> OrZero(row.total_day_minutes),
                night |-> OrZero(row.total_night_minutes)]
       ELSE ZeroTotal

\* line 240: LIMIT 12
HistoryLimit == 12

RECURSIVE SortOldestFirst(_)
\* mutant: ORDER BY year ASC, month ASC
SortOldestFirst(rows) ==
    IF rows = {} THEN <<>>
    ELSE LET top == CHOOSE r \in rows : \A o \in rows :
                        \/ o.year > r.year
                        \/ o.year = r.year /\ o.month >= r.month
         IN <<top>> \o SortOldestFirst(rows \ {top})

RECURSIVE SortNewestFirst(_)
\* line 239: ORDER BY year DESC, month DESC
SortNewestFirst(rows) ==
    IF rows = {} THEN <<>>
    ELSE LET top == CHOOSE r \in rows : \A o \in rows :
                        \/ o.year < r.year
                        \/ o.year = r.year /\ o.month <= r.month
         IN <<top>> \o SortNewestFirst(rows \ {top})

\* part_003 lines 233-251: SELECT month, year, total_* FROM monthly_totals
\* WHERE chat_id = ? ORDER BY year DESC, month DESC LIMIT 12
getMonthlyHistory(tots, chatId) ==
    LET rows == { [month |-> row.month,
                   year |-> row.year,
                   total_duration_minutes |-> row.total_duration_minutes,
                   total_day_minutes |-> row.total_day_minutes,
                   total_night_minutes |-> row.total_night_minutes] :
                  row \in { x \in tots : x.chat_id = chatId } }
        sorted == SortNewestFirst(rows)
    IN SubSeq(sorted, 1,
              IF Len(sorted) < HistoryLimit THEN Len(sorted) ELSE HistoryLimit)

\* part_003 line 260: the columns that getCurrentMonthRecords selects
RecordColumns(r) ==
    [visitor_name |-> r.visitor_name,
     car_plate |-> r.car_plate,
     start_datetime |-> r.start_datetime,
     end_datetime |-> r.end_datetime,
     duration_minutes |-> r.duration_minutes,
     day_minutes |-> r.day_minutes,
     night_minutes |-> r.night_minutes,
     created_at |-> r.created_at]

RECURSIVE NewestFirstOrders(_)
\* part_003 line 263: ORDER BY created_at DESC; the lists of the rows that
\* this order admits, rows of one created_at coming in either order
NewestFirstOrders(rows) ==
    IF rows = {} THEN {<<>>}
    ELSE UNION { { <<r>> \o rest : rest \in NewestFirstOrders(rows \ {r}) } :
                 r \in { x \in rows :
                           \A o \in rows : o.created_at <= x.created_at } }

\* part_003 lines 253-274: SELECT ... FROM parking_records WHERE chat_id = ?
\* AND month = ? AND year = ? ORDER BY created_at DESC, for the month and
\* year of `asked` (lines 254-256); the lists that the call may resolve with
getCurrentMonthRecords(recs, chatId, asked) ==
    LET selected == { x \in recs : /\ x.chat_id = chatId
                                   /\ x.month = MonthOf(asked)
                                   /\ x.year = YearOf(asked) }
    IN { [j \in 1..Len(s) |-> RecordColumns(s[j])] :
           s \in NewestFirstOrders(selected) }

\* mutant: no session is deleted (resetCurrentMonth of src/src/database.js,
\* lines 251-271, has no DELETE FROM parking_records)
DeleteRecordsKeepsSessions(recs, chatId, month, year) == recs

\* lines 302-307: DELETE FROM parking_records WHERE chat_id, month, year
DeleteRecords(recs, chatId, month, year) ==
    { r \in recs : ~(r.chat_id = chatId /\ r.month = month /\ r.year = year) }

\* mutant: the total row is kept and its total set to 0 (resetCurrentMonth
\* of src/src/database.js, lines 257-261)
DeleteTotalsZeroes(tots, chatId, month, year) ==
    { IF TotalKeyIs(row, chatId, month, year)
      THEN [row EXCEPT !.total_duration_minutes = 0]
      ELSE row : row \in tots }

\* lines 314-319: DELETE FROM monthly_totals WHERE chat_id, month, year
DeleteTotals(tots, chatId, month, year) ==
    { row \in tots : ~TotalKeyIs(row, chatId, month, year) }

----------------------------------------------------------------------------
(* ParkingBot and Database state                                           *)

\* bounds of the bot's runs: the photo messages, the reset commands, the
\* steps of the wall clock, the calls that a handler awaits and that are
\* rejected (a resetCurrentMonth apart), and the other commands in progress
MaxPhotos == 2
MaxRequests == 1
MaxTicks == 1
MaxFaults == 1
MaxCommands == 1

\* bounds of the runs of Database alone: the methods called and the
\* sessions INSERTed
MaxCalls == 5
MaxSessions == 2

\* bound of both: the statements of Database rejected in a run of Database
\* alone, the calls of resetCurrentMonth rejected in a run of the bot
MaxStoreFaults == 1

now == Clock(tick)

HpIdle == [pc |-> "idle", chatId |-> "none", timeData |-> NoTicket,
           ocrLength |-> 0, asked |-> 0]

NoAnswer == [userId |-> "none", kind |-> "none", currentTotal |-> ZeroTotal,
             ocrLength |-> 0]

NoArguments == Arguments(NoTicket, 0, 0)

\* no method of Database has been called by the caller
DbIdle == [op |-> "none", pc |-> "rest", chatId |-> "none",
           args |-> NoArguments, asked |-> 0, recordId |-> 0, again |-> FALSE,
           duplicate |-> FALSE, total |-> ZeroTotal, rows |-> <<>>,
           deleted |-> {}]

NoCalls == [calls |-> 0, solo |-> TRUE, reset |-> FALSE, torn |-> FALSE]

BotInit ==
    /\ parking_records = {}
    /\ monthly_totals = {}
    /\ lastID = 0
    /\ isProcessing = [u \in Users |-> FALSE]
    /\ hp = [u \in Users |-> HpIdle]
    /\ lastAnswer = NoAnswer
    /\ requests = <<>>
    /\ tick = 0
    /\ photos = 0
    /\ busy = [u \in Users |-> 0]
    /\ faults = 0
    /\ db = [u \in Users |-> DbIdle]
    /\ callLog = NoCalls
    /\ removed = {}
    /\ commands = <<>>
    /\ submitted = {}

----------------------------------------------------------------------------
(* The media-group coordinator and processBatch: their state at rest       *)

Groups == {"g1", "g2"}

\* the user and the chat of the media groups
BatchUser == "u1"
BatchChat == "c1"

\* the fixed debounce window: 1 second
DebounceMs == 1000

\* bounds of the coordinator's runs
ElapseMs == 500
MaxArrivals == 3

NoTimer == 0 - 1

ZeroCount == [succeeded |-> 0, duplicates |-> 0, failed |-> 0]

NoSummary == [kind |-> "none", count |-> ZeroCount, currentTotal |-> ZeroTotal]

BatchIdle ==
    /\ mgItems = [g \in Groups |-> <<>>]
    /\ mgTimer = [g \in Groups |-> NoTimer]
    /\ mgQuiet = [g \in Groups |-> 0]
    /\ mgArrived = [g \in Groups |-> 0]
    /\ mgHanded = [g \in Groups |-> 0]
    /\ bItems = <<>>
    /\ bCount = ZeroCount
    /\ bPc = "idle"
    /\ bSummary = NoSummary

\* no query has been made
HistoryIdle == hChat = "none" /\ hHistory = <<>> /\ hPc = "off"

\* no extractor response is being parsed
ParseIdle ==
    /\ pResponse = [kind |-> "none"]
    /\ pResult = [success |-> FALSE]
    /\ pPc = "off"

\* bot.js lines 320-325: init() has run to its end, the handlers are set up
Started == stPc = "serving" /\ stFailed = "none"

QueryIdle == HistoryIdle /\ ParseIdle /\ Started

Init == BotInit /\ SplitIdle /\ BatchIdle /\ QueryIdle

\* the sessions that the items of a media group are extracted to
BatchTickets == {TicketA, TicketB, TicketC}

\* the accounting engine's call of the splitter for a session of a batch,
\* whose result it hands to the store
EngineSplit(timeData) ==
    calculateDayNightSplit(timeData.startDateTime, timeData.endDateTime)

\* bot.sendMessage is called with the outcome of a submission; currentTotal
\* is the value read at line 664, which the text of the message is built from
Answer(u, kind, total) ==
    lastAnswer' = [userId |-> u, kind |-> kind, currentTotal |-> total,
                   ocrLength |-> 0]

\* bot.sendMessage is called with an outcome of lines 617-635; ocrLength is
\* the length of the text that OCR had read
AnswerOcr(u, kind, n) ==
    lastAnswer' = [userId |-> u, kind |-> kind, currentTotal |-> ZeroTotal,
                   ocrLength |-> n]

\* bot.sendMessage is called with the text of a command's answer
Notice(kind) == lastAnswer' = [NoAnswer EXCEPT !.kind = kind]

\* the handler awaits the bot.sendMessage it has just called: the flag stays
\* set, and of the handler's locals only chatId is used again (line 696)
AwaitSend(u, pc) ==
    /\ hp' = [hp EXCEPT ![u] = [HpIdle EXCEPT !.pc = pc,
                                              !.chatId = hp[u].chatId]]
    /\ UNCHANGED isProcessing

\* lines 697-699, the finally block: the flag is cleared, the invocation over
Finally(u) ==
    /\ isProcessing' = [isProcessing EXCEPT ![u] = FALSE]
    /\ hp' = [hp EXCEPT ![u] = HpIdle]

\* the step sends no answer
Silent == lastAnswer' = NoAnswer

\* bot.js lines 333-341, Dockerfile line 2: the handlers are registered
\* bare, so a handler's promise that rejects is handled nowhere, and Node 20
\* ends the process on an unhandled rejection;
\* the dispatcher serves events as long as that has not happened
Serving == stPc = "serving" /\ lastAnswer.kind # "uncaught"

\* an awaited call of the chat transport (bot.sendMessage, editMessageText,
\* answerCallbackQuery) rejects where no try block encloses it (bot.js
\* lines 372, 390, 416, 453, 489, 543, 561, 569, 572, 580, 586, 596, 696,
\* 709), so the promise of the handler or listener rejects
SendRejects(u) ==
    /\ faults < MaxFaults
    /\ faults' = faults + 1
    /\ lastAnswer' = [userId |-> u, kind |-> "uncaught",
                      currentTotal |-> ZeroTotal, ocrLength |-> 0]
    /\ UNCHANGED storeVars

Goto(u, pc) == hp' = [hp EXCEPT ![u].pc = pc]

----------------------------------------------------------------------------
(* ParkingBot.handlePhoto, which handleDocument calls for an image file    *)
(* (bot.js lines 705-707)                                                  *)

\* mutant: the flag is not consulted
InFlightNever(flags, u) == FALSE

\* line 595: this.isProcessing.get(userId)
InFlight(flags, u) == flags[u]

\* lines 595-596: the user's flag is set; bot.sendMessage is called with
\* "still processing" and awaited
HandlePhotoBusy(u, c) ==
    /\ Serving
    /\ u \in Members[c]
    /\ photos < MaxPhotos
    /\ photos' = photos + 1
    /\ InFlight(isProcessing, u)
    /\ Answer(u, "wait", ZeroTotal)
    /\ busy' = [busy EXCEPT ![u] = @ + 1]
    /\ UNCHANGED <<storeVars, faults, isProcessing, hp, requests, tick>>
    /\ UNCHANGED <<splitVars, batchVars, auxVars>>

\* lines 596-597: the awaited send of "still processing" settles; the
\* handler returns, or the rejection, which no try block encloses, leaves
\* handlePhoto's promise rejected
HandlePhotoBusySent(u) ==
    /\ Serving
    /\ busy[u] > 0
    /\ busy' = [busy EXCEPT ![u] = @ - 1]
    /\ \/ /\ Silent /\ UNCHANGED <<storeVars, faults>>
       \/ SendRejects(u)
    /\ UNCHANGED <<isProcessing, hp, requests, tick, photos>>
    /\ UNCHANGED <<splitVars, batchVars, auxVars>>

\* lines 595-603: the gate is passed and the flag is set
HandlePhotoAccept(u, c) ==
    /\ Serving
    /\ u \in Members[c]
    /\ photos < MaxPhotos
    /\ photos' = photos + 1
    /\ ~InFlight(isProcessing, u)
    /\ isProcessing' = [isProcessing EXCEPT ![u] = TRUE]
    /\ hp' = [hp EXCEPT ![u] = [HpIdle EXCEPT !.pc = "extract",
                                              !.chatId = c]]
    /\ Silent /\ UNCHANGED <<storeVars, requests, tick, busy, faults>>
    /\ UNCHANGED <<splitVars, batchVars, auxVars>>

\* line 617: the least length of a readable text
MinOcrChars == 5

\* mutant: a text of four characters passes as readable
OcrUnreadableBelowFour(length) == length = 0 \/ length < MinOcrChars - 1

\* line 617: !ocrResult.text || ocrResult.text.length < 5
OcrUnreadable(length) == length = 0 \/ length < MinOcrChars

\* lines 603-639: download, OCR and extraction, with their early returns,
\* each of which calls bot.sendMessage and awaits it; on success
\* parseTimeRange has resolved with its success object
HandlePhotoExtract(u) ==
    /\ Serving
    /\ hp[u].pc = "extract"
    /\ \/ \E n \in OcrLengths :                   \* line 615: OCR reads n
             \/ /\ OcrUnreadable(n)                \* lines 617-618
                /\ AnswerOcr(u, "unreadable", n)
                /\ AwaitSend(u, "send")
             \/ /\ ~OcrUnreadable(n)               \* lines 627-635
                /\ AnswerOcr(u, "extractfail", n)
                /\ AwaitSend(u, "send")
             \/ /\ ~OcrUnreadable(n)               \* timeData.success
                /\ hp' = [hp EXCEPT ![u].pc = "check",
                                    ![u].timeData = ParsedTicket,
                                    ![u].ocrLength = n]
                /\ Silent /\ UNCHANGED <<isProcessing>>
       \/ /\ Answer(u, "error", ZeroTotal)        \* a collaborator throws:
          /\ AwaitSend(u, "caught")               \* lines 694-696
    /\ UNCHANGED <<storeVars, requests, tick, photos, busy, faults>>
    /\ UNCHANGED <<splitVars, batchVars, auxVars>>

\* a store statement fails (reject(err) of part_003 lines 136-137, 155-156,
\* 171, 215-216): the rejection reaches handlePhoto's catch, which calls
\* bot.sendMessage with the error notice (lines 694-696)
StatementFails(u) ==
    /\ faults < MaxFaults
    /\ faults' = faults + 1
    /\ Answer(u, "error", ZeroTotal)
    /\ AwaitSend(u, "caught")
    /\ UNCHANGED storeVars

\* lines 641-651, part_003 lines 147-163: the duplicate check and its early
\* return
HandlePhotoCheckDuplicate(u) ==
    /\ Serving
    /\ hp[u].pc = "check"
    /\ \/ /\ checkDuplicateRecord(parking_records, hp[u].chatId,
                                  hp[u].timeData.carPlate,
                                  hp[u].timeData.startDateTime)
          /\ Answer(u, "duplicate", ZeroTotal)    \* line 645
          /\ AwaitSend(u, "send")
          /\ UNCHANGED <<storeVars, faults>>
       \/ /\ ~checkDuplicateRecord(parking_records, hp[u].chatId,
                                   hp[u].timeData.carPlate,
                                   hp[u].timeData.startDateTime)
          /\ Goto(u, "insert")
          /\ Silent /\ UNCHANGED <<storeVars, faults, isProcessing>>
       \/ StatementFails(u)                       \* the SELECT is rejected
    /\ UNCHANGED <<requests, tick, photos, busy>>
    /\ UNCHANGED <<splitVars, batchVars, auxVars>>

\* bot.js lines 653-662: addParkingRecord is called with eight arguments,
\* the last of them timeData.durationMinutes, so its dayMinutes and
\* nightMinutes are undefined
HandlePhotoArguments(timeData) == Arguments(timeData, NULL, NULL)

\* the (chat, plate, start instant) of the submission of user u
SubmissionKey(u) ==
    <<hp[u].chatId, hp[u].timeData.carPlate, hp[u].timeData.startDateTime>>

\* bot.js lines 653-691, part_003 lines 123-145, 165-231: the call of
\* addParkingRecord, statement by statement, and the call of
\* getCurrentMonthTotal that follows it, which reads the wall clock when it
\* is made (`asked`) and whose SELECT settles in a later step; then
\* bot.sendMessage is called with the success message
HandlePhotoStore(u) ==
    /\ Serving
    /\ hp[u].pc \in {"insert", "update", "instotal", "select"}
    /\ LET c == hp[u].chatId
           a == HandlePhotoArguments(hp[u].timeData)
           month == StartMonth(a.timeData)
           year == StartYear(a.timeData)
       IN \/ /\ hp[u].pc = "insert"              \* part_003 lines 130-137
             /\ NotNullViolated(a.timeData)      \* SQLITE_CONSTRAINT
             /\ Answer(u, "error", ZeroTotal)    \* bot.js lines 694-696
             /\ AwaitSend(u, "caught")
             /\ UNCHANGED <<storeVars, faults>>
          \/ /\ hp[u].pc = "insert"              \* part_003 lines 130-139
             /\ ~NotNullViolated(a.timeData)
             /\ parking_records' = parking_records \cup
                    {RecordRow(lastID + 1, c, u, a.timeData,
                               a.dayMinutes, a.nightMinutes, now)}
             /\ lastID' = lastID + 1
             /\ Goto(u, "update")
             /\ Silent /\ UNCHANGED <<monthly_totals, isProcessing, faults>>
          \/ /\ hp[u].pc = "update"              \* part_003 lines 179-190
             /\ monthly_totals' =
                    UpdateTotals(monthly_totals, c, month, year,
                                 a.dayMinutes, a.nightMinutes)
             /\ IF UpdateChanges(monthly_totals, c, month, year) = 0
                THEN Goto(u, "instotal")
                ELSE hp' = [hp EXCEPT ![u].pc = "select", ![u].asked = now]
             /\ Silent
             /\ UNCHANGED <<parking_records, lastID, isProcessing, faults>>
          \/ /\ hp[u].pc = "instotal"            \* part_003 lines 190-196
             /\ ~UniqueViolation(monthly_totals, c, month, year)
             /\ monthly_totals' = monthly_totals \cup
                    {TotalRow(c, month, year, a.dayMinutes, a.nightMinutes)}
             /\ hp' = [hp EXCEPT ![u].pc = "select", ![u].asked = now]
             /\ Silent
             /\ UNCHANGED <<parking_records, lastID, isProcessing, faults>>
          \/ /\ hp[u].pc = "instotal"            \* part_003 lines 197-200
             /\ UniqueViolation(monthly_totals, c, month, year)
             /\ Answer(u, "error", ZeroTotal)
             /\ AwaitSend(u, "caught")
             /\ UNCHANGED <<storeVars, faults>>
          \/ /\ hp[u].pc = "select"              \* bot.js lines 664-691
             /\ Answer(u, "recorded",
                       getCurrentMonthTotal(monthly_totals, c, hp[u].asked))
             /\ AwaitSend(u, "send")
             /\ UNCHANGED <<storeVars, faults>>
          \/ /\ ~(hp[u].pc = "insert" /\ NotNullViolated(a.timeData))
             /\ StatementFails(u)                \* the statement is rejected
    /\ submitted' = IF hp[u].pc = "insert"
                    THEN submitted \cup {SubmissionKey(u)}
                    ELSE submitted
    /\ UNCHANGED <<requests, tick, photos, busy>>
    /\ UNCHANGED <<splitVars, batchVars, queryVars, callVars, commands>>

\* lines 618-620, 632-637, 645-650, 691-692, 697-699: the awaited send of
\* an answer of the try block settles; when it resolves cleanupFile runs
\* (part_002 lines 107-114, which never throws) and then finally; when it
\* rejects the catch calls bot.sendMessage with the error notice
HandlePhotoSent(u) ==
    /\ Serving
    /\ hp[u].pc = "send"
    /\ \/ /\ Finally(u)
          /\ Silent /\ UNCHANGED <<storeVars, faults>>
       \/ /\ faults < MaxFaults
          /\ faults' = faults + 1
          /\ Answer(u, "error", ZeroTotal)
          /\ AwaitSend(u, "caught")
          /\ UNCHANGED storeVars
    /\ UNCHANGED <<requests, tick, photos, busy>>
    /\ UNCHANGED <<splitVars, batchVars, auxVars>>

\* lines 696-699: the awaited send of the error notice settles; finally
\* runs either way, and a rejection leaves handlePhoto's promise rejected
HandlePhotoCaught(u) ==
    /\ Serving
    /\ hp[u].pc = "caught"
    /\ \/ /\ Silent /\ UNCHANGED <<storeVars, faults>>
       \/ SendRejects(u)
    /\ Finally(u)
    /\ UNCHANGED <<requests, tick, photos, busy>>
    /\ UNCHANGED <<splitVars, batchVars, auxVars>>

----------------------------------------------------------------------------
(* The handlers of the commands that wait for no button: handleStart,      *)
(* handleCurrent, handleHistory, handleRecent, handleHelp, and             *)
(* handleDocument for a file that is no image                              *)

\* the chats from which these commands are sent
CommandChats == {"c1"}

\* an invocation of one of these handlers for a message of chat c, at the
\* awaited call pc: the send outside a try block ("unguarded"), the SELECT
\* of getCurrentMonthTotal ("total") or of getMonthlyHistory ("history"),
\* the send of the try block ("send") or the send of the catch ("caught")
Command(pc, c, asked) == [pc |-> pc, chatId |-> c, asked |-> asked]

\* the event is dispatched to the handler
Dispatch(command) ==
    /\ Serving
    /\ Len(commands) < MaxCommands
    /\ commands' = Append(commands, command)
    /\ UNCHANGED <<storeVars, isProcessing, hp, requests, tick, photos, busy,
                   faults>>
    /\ UNCHANGED <<splitVars, batchVars, queryVars, callVars, submitted>>

\* a step of invocation k that leaves it at pc
CommandGoes(k, pc) ==
    /\ commands' = [commands EXCEPT ![k].pc = pc, ![k].asked = 0]
    /\ UNCHANGED <<isProcessing, hp, requests, tick, photos, busy>>
    /\ UNCHANGED <<splitVars, batchVars, queryVars, callVars, submitted>>

\* invocation k is over: the handler has returned or its promise is rejected
CommandEnds(k) ==
    /\ commands' = [j \in 1..(Len(commands) - 1) |->
                       IF j < k THEN commands[j] ELSE commands[j + 1]]
    /\ UNCHANGED <<isProcessing, hp, requests, tick, photos, busy>>
    /\ UNCHANGED <<splitVars, batchVars, queryVars, callVars, submitted>>

\* the catch of handleCurrent or handleHistory (lines 388-390, 414-416)
\* takes the rejection of an awaited call of the try block and calls
\* bot.sendMessage with the error notice
CommandCatches(k) ==
    /\ faults < MaxFaults
    /\ faults' = faults + 1
    /\ Notice("error")
    /\ CommandGoes(k, "caught")
    /\ UNCHANGED storeVars

\* lines 348-373: /start; the welcome message is sent outside any try block
HandleStart(c) ==
    /\ Dispatch(Command("unguarded", c, 0))
    /\ Notice("welcome")

\* lines 457-490: /help; the help message is sent outside any try block
HandleHelp(c) ==
    /\ Dispatch(Command("unguarded", c, 0))
    /\ Notice("help")

\* lines 702-710: a document that is no image is answered with the request
\* for an image, sent outside any try block
HandleDocument(c) ==
    /\ Dispatch(Command("unguarded", c, 0))
    /\ Notice("notimage")

\* lines 372, 489, 709: the awaited send settles; the handler returns, or
\* the rejection leaves the handler's promise rejected
UnguardedSent(k) ==
    /\ Serving
    /\ k \in 1..Len(commands)
    /\ commands[k].pc = "unguarded"
    /\ CommandEnds(k)
    /\ \/ /\ Silent /\ UNCHANGED <<storeVars, faults>>
       \/ SendRejects("none")

\* lines 375-379, part_003 lines 203-206: /current; getCurrentMonthTotal is
\* called, reads the wall clock and queues its SELECT
HandleCurrent(c) ==
    /\ Dispatch(Command("total", c, now))
    /\ Silent

\* line 383: currentTotal > 0, where currentTotal is the object {total, day,
\* night} that getCurrentMonthTotal resolves; an object compared with a
\* number is converted to NaN, and no comparison with NaN is true
HasParkingTime(currentTotal) == FALSE

\* lines 379-390: the SELECT settles and bot.sendMessage is called with the
\* month's total or with "no parking time recorded yet"
HandleCurrentRead(k) ==
    /\ Serving
    /\ k \in 1..Len(commands)
    /\ commands[k].pc = "total"
    /\ \/ /\ Notice(IF HasParkingTime(
                         getCurrentMonthTotal(monthly_totals,
                             commands[k].chatId, commands[k].asked))
                    THEN "current" ELSE "norecord")
          /\ CommandGoes(k, "send")
          /\ UNCHANGED <<storeVars, faults>>
       \/ CommandCatches(k)                       \* the SELECT is rejected

\* lines 394-398: /history; getMonthlyHistory is called
HandleHistory(c) ==
    /\ Dispatch(Command("history", c, 0))
    /\ Silent

\* lines 398-416: the SELECT settles and bot.sendMessage is called with
\* "no parking history found" or with the list of the months
HandleHistoryRead(k) ==
    /\ Serving
    /\ k \in 1..Len(commands)
    /\ commands[k].pc = "history"
    /\ \/ /\ Notice(IF Len(getMonthlyHistory(monthly_totals,
                                             commands[k].chatId)) = 0
                    THEN "nohistory" ELSE "history")
          /\ CommandGoes(k, "send")
          /\ UNCHANGED <<storeVars, faults>>
       \/ CommandCatches(k)                       \* the SELECT is rejected

\* lines 420-424, 451-453: /recent; Database (part_003) has no method
\* getRecentRecords, so the call of line 424 throws a TypeError inside the
\* try block and the catch calls bot.sendMessage with the error notice
HandleRecent(c) ==
    /\ Dispatch(Command("caught", c, 0))
    /\ Notice("error")

\* lines 387, 401, 413: the awaited send of the try block settles; the
\* handler returns, or the catch calls bot.sendMessage with the error notice
CommandSent(k) ==
    /\ Serving
    /\ k \in 1..Len(commands)
    /\ commands[k].pc = "send"
    /\ \/ /\ CommandEnds(k)
          /\ Silent /\ UNCHANGED <<storeVars, faults>>
       \/ CommandCatches(k)

\* lines 390, 416, 453: the awaited send of the catch settles; a rejection
\* leaves the handler's promise rejected
CommandCaught(k) ==
    /\ Serving
    /\ k \in 1..Len(commands)
    /\ commands[k].pc = "caught"
    /\ CommandEnds(k)
    /\ \/ /\ Silent /\ UNCHANGED <<storeVars, faults>>
       \/ SendRejects("none")

----------------------------------------------------------------------------
(* ParkingBot.handleReset and its one-shot callback_query listener         *)

\* line 502, part_003 lines 219-227: currentTotal === 0, where currentTotal
\* is the object {total, day, night} that getCurrentMonthTotal resolves; an
\* object is never strictly equal to a number
NothingToReset(currentTotal) == FALSE

\* mutant: any user may confirm or cancel
AuthorizedAnyone(callbackUserId, userId) == TRUE

\* lines 541-545: only the user who initiated the reset may confirm
Authorized(callbackUserId, userId) == callbackUserId = userId

\* lines 526-527: the callback_data of the two buttons
CallbackData(kind, chatId) == [kind |-> kind, chatId |-> chatId]

\* lines 492-498, part_003 lines 203-206: the command; getCurrentMonthTotal
\* is called, reads the wall clock (`asked`, kept until the SELECT settles)
\* and queues its SELECT, which the handler awaits
HandleResetUpTo(u, c, limit) ==
    /\ Serving
    /\ u \in Members[c]
    /\ Len(requests) < limit
    /\ LET req == [chatId |-> c, userId |-> u,
                   stage |-> "select", asked |-> now,
                   listening |-> FALSE, message |-> "none",
                   shownMonth |-> 0, shownYear |-> 0,
                   shownTotal |-> ZeroTotal,
                   cb |-> "none",
                   reset |-> "none", by |-> "none", pressed |-> 0,
                   month |-> 0, year |-> 0]
       IN requests' = Append(requests, req)
    /\ Silent
    /\ UNCHANGED <<storeVars, isProcessing, hp, tick, photos, busy, faults>>
    /\ UNCHANGED <<splitVars, batchVars, auxVars>>

\* the command, in runs of at most MaxRequests commands
HandleReset(u, c) == HandleResetUpTo(u, c, MaxRequests)

\* lines 584-587: an awaited call of the try block is rejected; the catch
\* calls bot.sendMessage with "Error initiating reset" and awaits it; no
\* listener is registered, and what the try block had read is out of scope
HandleResetCatches(i) ==
    /\ faults < MaxFaults
    /\ faults' = faults + 1
    /\ requests' = [requests EXCEPT ![i].message = "error",
                                    ![i].stage = "caught",
                                    ![i].asked = 0,
                                    ![i].shownMonth = 0,
                                    ![i].shownYear = 0,
                                    ![i].shownTotal = ZeroTotal]

\* lines 498-533: the SELECT settles; the wall clock is read again for the
\* month the message names (line 499), the total is compared with 0, and
\* bot.sendMessage is called with "nothing to reset" or with the
\* confirmation message and its two buttons; shownTotal is the value read
\* at line 498, which the text of the message is built from (line 518)
HandleResetRead(i) ==
    /\ Serving
    /\ i \in 1..Len(requests)
    /\ requests[i].stage = "select"
    /\ \/ LET currentTotal == getCurrentMonthTotal(monthly_totals,
                                  requests[i].chatId, requests[i].asked)
          IN /\ requests' = [requests EXCEPT
                    ![i].asked = 0,
                    ![i].shownMonth = MonthOf(now),
                    ![i].shownYear = YearOf(now),
                    ![i].shownTotal = currentTotal,
                    ![i].message = IF NothingToReset(currentTotal)
                                   THEN "nothing" ELSE "buttons",
                    ![i].stage = IF NothingToReset(currentTotal)
                                 THEN "return" ELSE "send"]
             /\ UNCHANGED faults
       \/ HandleResetCatches(i)                   \* the SELECT is rejected
    /\ Silent
    /\ UNCHANGED <<storeVars, isProcessing, hp, tick, photos, busy>>
    /\ UNCHANGED <<splitVars, batchVars, auxVars>>

\* lines 503-504, 533-536: the awaited send settles; after the confirmation
\* message bot.once('callback_query', ...) registers the listener, after
\* "nothing to reset" the handler returns
HandleResetSent(i) ==
    /\ Serving
    /\ i \in 1..Len(requests)
    /\ requests[i].stage \in {"send", "return"}
    /\ \/ /\ requests' = [requests EXCEPT
                    ![i].listening = (requests[i].stage = "send"),
                    ![i].stage = "done"]
          /\ UNCHANGED faults
       \/ HandleResetCatches(i)                   \* the send is rejected
    /\ Silent
    /\ UNCHANGED <<storeVars, isProcessing, hp, tick, photos, busy>>
    /\ UNCHANGED <<splitVars, batchVars, auxVars>>

\* line 586: the awaited send of the error notice settles; a rejection
\* leaves handleReset's promise rejected
HandleResetCaught(i) ==
    /\ Serving
    /\ i \in 1..Len(requests)
    /\ requests[i].stage = "caught"
    /\ requests' = [requests EXCEPT ![i].stage = "done"]
    /\ \/ /\ Silent /\ UNCHANGED <<storeVars, faults>>
       \/ SendRejects(requests[i].userId)
    /\ UNCHANGED <<isProcessing, hp, tick, photos, busy>>
    /\ UNCHANGED <<splitVars, batchVars, auxVars>>

\* the listeners an emitted callback_query runs: bot.once has registered
\* each of them for the next event, whatever its chat or message
Fired == { i \in 1..Len(requests) : requests[i].listening }

\* mutant: the confirm branch does not look at the data
ConfirmsAnyData(i, v, data) ==
    /\ i \in Fired
    /\ Authorized(v, requests[i].userId)

\* lines 541-549: listener i passes the user check and the data is its confirm
Confirms(i, v, data) ==
    /\ i \in Fired
    /\ Authorized(v, requests[i].userId)
    /\ data = CallbackData("confirm", requests[i].chatId)

\* lines 541-545, 571: listener i passes the user check and the data is its
\* cancel
Cancels(i, v, data) ==
    /\ i \in Fired
    /\ Authorized(v, requests[i].userId)
    /\ data = CallbackData("cancel", requests[i].chatId)

\* mutant: the listener stays registered, as with bot.on
OnceListenerStays(listening) == listening

\* line 536: bot.once removes the listener when the event is emitted
OnceListener(listening) == FALSE

\* the messages of a request that never had buttons
NoButtons == {"none", "nothing", "error"}

\* lines 537-583: where listener i stands after it has run, for the event
\* that user v pressed a button with `data`, up to its first await: at the
\* alert of line 543, in resetCurrentMonth (line 549), at the edit of line
\* 572, or at its end when the data is neither of its two
ListenerEntered(i, v, data) ==
    IF ~Authorized(v, requests[i].userId) THEN "alert"
    ELSE IF Confirms(i, v, data) THEN "reset"
    ELSE IF Cancels(i, v, data) THEN "editCancelled"
    ELSE "returned"

\* a callback_query event: user v presses button `kind` of message m, also
\* when the press was made before an edit of the message took its buttons
\* away; the emitter removes every registered listener and runs it up to
\* its first await; a listener that confirms has called resetCurrentMonth,
\* which fixes month and year (part_003 lines 295-299) and queues its first
\* DELETE
CallbackQuery(v, m, kind) ==
    /\ Serving
    /\ m \in 1..Len(requests)
    /\ requests[m].message \notin NoButtons
    /\ v \in Members[requests[m].chatId]
    /\ LET data == CallbackData(kind, requests[m].chatId)
       IN requests' =
            [i \in 1..Len(requests) |->
               IF i \notin Fired THEN requests[i]
               ELSE LET r == [requests[i] EXCEPT
                                 !.listening = OnceListener(@),
                                 !.by = v,
                                 !.pressed = m,
                                 !.cb = ListenerEntered(i, v, data)]
                    IN IF Confirms(i, v, data)
                       THEN [r EXCEPT !.reset = "records",
                                      !.month = MonthOf(now),
                                      !.year = YearOf(now)]
                       ELSE r]
    /\ Silent
    /\ UNCHANGED <<storeVars, faults, isProcessing, hp, tick, photos, busy>>
    /\ UNCHANGED <<splitVars, batchVars, auxVars>>

\* lines 543-544: the awaited answerCallbackQuery of the alert settles; the
\* listener returns, or the rejection, which no try block encloses, leaves
\* its promise rejected
ListenerAlerted(i) ==
    /\ Serving
    /\ i \in 1..Len(requests)
    /\ requests[i].cb = "alert"
    /\ requests' = [requests EXCEPT ![i].cb = "returned"]
    /\ \/ /\ Silent /\ UNCHANGED <<storeVars, faults>>
       \/ SendRejects(requests[i].by)
    /\ UNCHANGED <<isProcessing, hp, tick, photos, busy>>
    /\ UNCHANGED <<splitVars, batchVars, auxVars>>

\* the message that request i's listener edits: callbackQuery.message
EditMessage(i, text) ==
    [requests EXCEPT ![requests[i].pressed].message = text]

\* the requests whose resetCurrentMonth was rejected
FailedResets == { j \in 1..Len(requests) : requests[j].reset = "failed" }

\* lines 559-568: resetCurrentMonth is rejected; the catch calls
\* editMessageText with "Reset Failed"
ResetFails(i) ==
    /\ Cardinality(FailedResets) < MaxStoreFaults
    /\ requests' = [requests EXCEPT ![i].reset = "failed",
                                    ![i].cb = "editFailed"]
    /\ UNCHANGED <<storeVars, faults>>

\* part_003 lines 300-311: DELETE FROM parking_records
ResetDeleteRecords(i) ==
    /\ Serving
    /\ i \in 1..Len(requests)
    /\ requests[i].reset = "records"
    /\ \/ /\ parking_records' = DeleteRecords(parking_records,
                 requests[i].chatId, requests[i].month, requests[i].year)
          /\ requests' = [requests EXCEPT ![i].reset = "totals"]
          /\ UNCHANGED <<monthly_totals, lastID, faults>>
       \/ ResetFails(i)
    /\ Silent /\ UNCHANGED <<isProcessing, hp, tick, photos, busy>>
    /\ UNCHANGED <<splitVars, batchVars, auxVars>>

\* part_003 lines 313-325, bot.js lines 549-557: DELETE FROM monthly_totals;
\* resetCurrentMonth resolves and editMessageText is called with
\* "Reset Complete"
ResetDeleteTotals(i) ==
    /\ Serving
    /\ i \in 1..Len(requests)
    /\ requests[i].reset = "totals"
    /\ \/ /\ monthly_totals' = DeleteTotals(monthly_totals,
                 requests[i].chatId, requests[i].month, requests[i].year)
          /\ requests' = [requests EXCEPT ![i].reset = "done",
                                          ![i].cb = "editComplete"]
          /\ UNCHANGED <<parking_records, lastID, faults>>
       \/ ResetFails(i)
    /\ Silent /\ UNCHANGED <<isProcessing, hp, tick, photos, busy>>
    /\ UNCHANGED <<splitVars, batchVars, auxVars>>

\* the text that the editMessageText awaited at cb puts into the message
EditText(cb) ==
    CASE cb = "editComplete" -> "complete"
      [] cb = "editFailed" -> "failed"
      [] cb = "editCancelled" -> "cancelled"

\* the answerCallbackQuery that follows the editMessageText awaited at cb
AnswerAfter(cb) ==
    CASE cb = "editComplete" -> "answerComplete"
      [] cb = "editFailed" -> "answerFailed"
      [] cb = "editCancelled" -> "answerCancelled"

\* lines 550-558, 561-569, 572-580: the awaited editMessageText settles;
\* when it resolves the message is edited and answerCallbackQuery is
\* called; the rejection of the edit of the try block (line 550) is taken
\* by the catch, which calls editMessageText with "Reset Failed", and the
\* rejection of an edit of the catch or of the cancel branch, which no try
\* block encloses, leaves the listener's promise rejected
ListenerEdited(i) ==
    /\ Serving
    /\ i \in 1..Len(requests)
    /\ requests[i].cb \in {"editComplete", "editFailed", "editCancelled"}
    /\ \/ /\ requests' = [EditMessage(i, EditText(requests[i].cb))
                              EXCEPT ![i].cb = AnswerAfter(requests[i].cb)]
          /\ Silent /\ UNCHANGED <<storeVars, faults>>
       \/ /\ requests[i].cb = "editComplete"
          /\ faults < MaxFaults
          /\ faults' = faults + 1
          /\ requests' = [requests EXCEPT ![i].cb = "editFailed"]
          /\ Silent /\ UNCHANGED storeVars
       \/ /\ requests[i].cb # "editComplete"
          /\ requests' = [requests EXCEPT ![i].cb = "returned"]
          /\ SendRejects(requests[i].by)
    /\ UNCHANGED <<isProcessing, hp, tick, photos, busy>>
    /\ UNCHANGED <<splitVars, batchVars, auxVars>>

\* lines 558, 569, 580: the awaited answerCallbackQuery settles; the
\* listener returns when it resolves; the rejection of the notice of the
\* try block (line 558) is taken by the catch, which calls editMessageText
\* with "Reset Failed" for the message that says "Reset Complete", and the
\* rejection of a notice of the catch or of the cancel branch leaves the
\* listener's promise rejected
ListenerAnswered(i) ==
    /\ Serving
    /\ i \in 1..Len(requests)
    /\ requests[i].cb \in {"answerComplete", "answerFailed",
                           "answerCancelled"}
    /\ \/ /\ requests' = [requests EXCEPT ![i].cb = "returned"]
          /\ Silent /\ UNCHANGED <<storeVars, faults>>
       \/ /\ requests[i].cb = "answerComplete"
          /\ faults < MaxFaults
          /\ faults' = faults + 1
          /\ requests' = [requests EXCEPT ![i].cb = "editFailed"]
          /\ Silent /\ UNCHANGED storeVars
       \/ /\ requests[i].cb # "answerComplete"
          /\ requests' = [requests EXCEPT ![i].cb = "returned"]
          /\ SendRejects(requests[i].by)
    /\ UNCHANGED <<isProcessing, hp, tick, photos, busy>>
    /\ UNCHANGED <<splitVars, batchVars, auxVars>>

\* the wall clock advances
Tick ==
    /\ Serving
    /\ tick < MaxTicks
    /\ tick' = tick + 1
    /\ Silent
    /\ UNCHANGED <<storeVars, isProcessing, hp, requests, photos, busy,
                   faults>>
    /\ UNCHANGED <<splitVars, batchVars, auxVars>>

----------------------------------------------------------------------------
(* Database called through its methods: each caller makes one call at a    *)
(* time, in the order in which handlePhoto and the reset listener make     *)
(* them, and the statements of the calls of different callers interleave   *)

\* the sessions and the minutes that addParkingRecord is called with: with
\* the day and night minutes of the session's interval, and as handlePhoto
\* calls it (bot.js lines 653-662)
SessionA == Arguments(TicketA, 85, 60)
SessionB == Arguments(TicketB, 120, 180)
SessionC == Arguments(TicketC, 60, 30)
SessionZ == Arguments(TicketZ, 0, 0)

CallArguments ==
    {SessionA, SessionB, SessionC, SessionZ,
     HandlePhotoArguments(ParsedTicket)}

\* the caller awaits no call
AtRest(u) == db[u].pc \in {"rest", "resolved", "rejected"}

\* caller u calls a method; the log keeps how many calls were made, whether
\* a call of another caller was unsettled then, whether the method was
\* resetCurrentMonth, and whether an addParkingRecord was rejected after
\* its INSERT
Calls(u, call) ==
    /\ AtRest(u)
    /\ callLog.calls < MaxCalls
    /\ db' = [db EXCEPT ![u] = call]
    /\ callLog' = [calls |-> callLog.calls + 1,
                   solo |-> callLog.solo /\ \A x \in Users \ {u} : AtRest(x),
                   reset |-> callLog.reset \/ call.op = "reset",
                   torn |-> callLog.torn]

\* the call of caller u has run its INSERT INTO parking_records
Inserted(u) == db[u].op = "add" /\ db[u].pc \in {"update", "instotal"}

\* a step of Database changes nothing of the bot
StoreStep ==
    /\ Silent
    /\ UNCHANGED <<isProcessing, hp, requests, tick, photos, busy>>
    /\ UNCHANGED <<splitVars, batchVars, queryVars, commands, submitted>>

\* the statement that the call of caller u awaits is rejected (reject(err)
\* of part_003 lines 137, 156, 171, 216, 268, 309, 321), and so is the call
StatementRejected(u) ==
    /\ faults < MaxStoreFaults
    /\ faults' = faults + 1
    /\ db' = [db EXCEPT ![u].pc = "rejected"]
    /\ callLog' = [callLog EXCEPT !.torn = @ \/ Inserted(u)]
    /\ UNCHANGED <<storeVars, removed>>

\* the call of caller u resolves
Resolves(u) == db' = [db EXCEPT ![u].pc = "resolved"]

\* the (chat, plate, start instant) of the call of caller u
CallKey(u) ==
    <<db[u].chatId, db[u].args.timeData.carPlate,
      db[u].args.timeData.startDateTime>>

\* the (chat, month, year) of the session of the call of caller u
CallMonth(u) ==
    <<db[u].chatId, StartMonth(db[u].args.timeData),
      StartYear(db[u].args.timeData)>>

\* part_003 lines 147-155: checkDuplicateRecord(chatId, carPlate,
\* startDateTime) is called and queues its SELECT
CheckDuplicateRecord(u, c, a) ==
    /\ u \in Members[c]
    /\ Calls(u, [DbIdle EXCEPT !.op = "check", !.pc = "select",
                               !.chatId = c, !.args = a])
    /\ UNCHANGED <<storeVars, faults, removed>>
    /\ StoreStep

\* part_003 lines 155-160: the SELECT settles; the call resolves with !!row
CheckDuplicateRecordSelect(u) ==
    /\ db[u].op = "check"
    /\ db[u].pc = "select"
    /\ \/ /\ db' = [db EXCEPT
                 ![u].pc = "resolved",
                 ![u].duplicate =
                     checkDuplicateRecord(parking_records, db[u].chatId,
                         db[u].args.timeData.carPlate,
                         db[u].args.timeData.startDateTime)]
          /\ UNCHANGED <<storeVars, faults, callLog, removed>>
       \/ StatementRejected(u)
    /\ StoreStep

\* the INSERTs that are queued and those that have run
Inserts == lastID + Cardinality({ x \in Users : db[x].pc = "insert" })

\* part_003 lines 123-135: addParkingRecord is called with the session that
\* the caller's checkDuplicateRecord has resolved false for (bot.js lines
\* 642-653); month and year are taken from the start instant and the INSERT
\* is queued; `again` keeps whether a resetCurrentMonth has removed this
\* session before
AddParkingRecord(u) ==
    /\ db[u].op = "check"
    /\ db[u].pc = "resolved"
    /\ ~db[u].duplicate
    /\ Inserts < MaxSessions
    /\ Calls(u, [db[u] EXCEPT !.op = "add", !.pc = "insert",
                              !.again = CallKey(u) \in removed])
    /\ UNCHANGED <<storeVars, faults, removed>>
    /\ StoreStep

\* part_003 lines 130-139: INSERT INTO parking_records, rejected by a NOT
\* NULL constraint or resolving this.lastID
AddParkingRecordInsert(u) ==
    /\ db[u].op = "add"
    /\ db[u].pc = "insert"
    /\ \/ /\ NotNullViolated(db[u].args.timeData)
          /\ db' = [db EXCEPT ![u].pc = "rejected"]
          /\ UNCHANGED <<storeVars, faults>>
       \/ /\ ~NotNullViolated(db[u].args.timeData)
          /\ parking_records' = parking_records \cup
                 {RecordRow(lastID + 1, db[u].chatId, u, db[u].args.timeData,
                            db[u].args.dayMinutes, db[u].args.nightMinutes,
                            now)}
          /\ lastID' = lastID + 1
          /\ db' = [db EXCEPT ![u].pc = "update", ![u].recordId = lastID + 1]
          /\ UNCHANGED <<monthly_totals, faults>>
       \/ /\ ~NotNullViolated(db[u].args.timeData)
          /\ StatementRejected(u)
    /\ UNCHANGED <<callLog, removed>>
    /\ StoreStep

\* the call of addParkingRecord of caller u resolves with the recordId
\* (part_003 lines 142-144)
AddResolves(u) ==
    /\ Resolves(u)
    /\ removed' = { k \in removed :
                       <<k[1], MonthOf(k[3]), YearOf(k[3])>> # CallMonth(u) }
    /\ UNCHANGED callLog

\* part_003 lines 166, 179-190: updateMonthlyTotal's UPDATE; when it has
\* changed a row the call of addParkingRecord resolves
UpdateMonthlyTotalUpdate(u) ==
    /\ db[u].op = "add"
    /\ db[u].pc = "update"
    /\ LET k == CallMonth(u)
       IN \/ /\ monthly_totals' =
                    UpdateTotals(monthly_totals, k[1], k[2], k[3],
                                 db[u].args.dayMinutes,
                                 db[u].args.nightMinutes)
             /\ IF UpdateChanges(monthly_totals, k[1], k[2], k[3]) = 0
                THEN /\ db' = [db EXCEPT ![u].pc = "instotal"]
                     /\ UNCHANGED <<callLog, removed>>
                ELSE AddResolves(u)
             /\ UNCHANGED <<parking_records, lastID, faults>>
          \/ StatementRejected(u)
    /\ StoreStep

\* part_003 lines 190-200: updateMonthlyTotal's INSERT, rejected by the
\* UNIQUE constraint when the key has a row by now
UpdateMonthlyTotalInsert(u) ==
    /\ db[u].op = "add"
    /\ db[u].pc = "instotal"
    /\ LET k == CallMonth(u)
       IN \/ /\ ~UniqueViolation(monthly_totals, k[1], k[2], k[3])
             /\ monthly_totals' = monthly_totals \cup
                    {TotalRow(k[1], k[2], k[3], db[u].args.dayMinutes,
                              db[u].args.nightMinutes)}
             /\ AddResolves(u)
             /\ UNCHANGED <<parking_records, lastID, faults>>
          \/ /\ UniqueViolation(monthly_totals, k[1], k[2], k[3])
             /\ db' = [db EXCEPT ![u].pc = "rejected"]
             /\ callLog' = [callLog EXCEPT !.torn = TRUE]
             /\ UNCHANGED <<storeVars, faults, removed>>
          \/ /\ ~UniqueViolation(monthly_totals, k[1], k[2], k[3])
             /\ StatementRejected(u)
    /\ StoreStep

\* part_003 lines 203-214: getCurrentMonthTotal(chatId) is called; it reads
\* the wall clock and queues its SELECT
GetCurrentMonthTotal(u, c) ==
    /\ u \in Members[c]
    /\ Calls(u, [DbIdle EXCEPT !.op = "total", !.pc = "select",
                               !.chatId = c, !.asked = now])
    /\ UNCHANGED <<storeVars, faults, removed>>
    /\ StoreStep

\* part_003 lines 215-229: the SELECT settles
GetCurrentMonthTotalSelect(u) ==
    /\ db[u].op = "total"
    /\ db[u].pc = "select"
    /\ \/ /\ db' = [db EXCEPT
                 ![u].pc = "resolved",
                 ![u].total = getCurrentMonthTotal(monthly_totals,
                                  db[u].chatId, db[u].asked)]
          /\ UNCHANGED <<storeVars, faults, callLog, removed>>
       \/ StatementRejected(u)
    /\ StoreStep

\* part_003 lines 253-265: getCurrentMonthRecords(chatId) is called; it
\* reads the wall clock and queues its SELECT
GetCurrentMonthRecords(u, c) ==
    /\ u \in Members[c]
    /\ Calls(u, [DbIdle EXCEPT !.op = "records", !.pc = "select",
                               !.chatId = c, !.asked = now])
    /\ UNCHANGED <<storeVars, faults, removed>>
    /\ StoreStep

\* part_003 lines 266-272: the SELECT settles
GetCurrentMonthRecordsSelect(u) ==
    /\ db[u].op = "records"
    /\ db[u].pc = "select"
    /\ \/ /\ \E rows \in getCurrentMonthRecords(parking_records,
                             db[u].chatId, db[u].asked) :
                db' = [db EXCEPT ![u].pc = "resolved", ![u].rows = rows]
          /\ UNCHANGED <<storeVars, faults, callLog, removed>>
       \/ StatementRejected(u)
    /\ StoreStep

\* part_003 lines 295-307: resetCurrentMonth(chatId) is called; it reads
\* the wall clock and queues its first DELETE
ResetCurrentMonth(u, c) ==
    /\ u \in Members[c]
    /\ Calls(u, [DbIdle EXCEPT !.op = "reset", !.pc = "records",
                               !.chatId = c, !.asked = now])
    /\ UNCHANGED <<storeVars, faults, removed>>
    /\ StoreStep

\* the (chat, plate, start instant) of the sessions of chat c stored with
\* the month and year of the instant `asked`
SessionsOfMonth(c, asked) ==
    { <<r.chat_id, r.car_plate, r.start_datetime>> :
        r \in { x \in parking_records : /\ x.chat_id = c
                                        /\ x.month = MonthOf(asked)
                                        /\ x.year = YearOf(asked) } }

\* part_003 lines 302-311: DELETE FROM parking_records; `deleted` keeps the
\* sessions that were stored for the call's chat and month when it ran
DeleteParkingRecords(u) ==
    /\ db[u].op = "reset"
    /\ db[u].pc = "records"
    /\ \/ /\ parking_records' =
                 DeleteRecords(parking_records, db[u].chatId,
                               MonthOf(db[u].asked), YearOf(db[u].asked))
          /\ db' = [db EXCEPT
                 ![u].pc = "totals",
                 ![u].deleted = SessionsOfMonth(db[u].chatId, db[u].asked)]
          /\ UNCHANGED <<monthly_totals, lastID, faults, callLog, removed>>
       \/ StatementRejected(u)
    /\ StoreStep

\* part_003 lines 314-325: DELETE FROM monthly_totals, after which the call
\* resolves
DeleteMonthlyTotals(u) ==
    /\ db[u].op = "reset"
    /\ db[u].pc = "totals"
    /\ \/ /\ monthly_totals' =
                 DeleteTotals(monthly_totals, db[u].chatId,
                              MonthOf(db[u].asked), YearOf(db[u].asked))
          /\ Resolves(u)
          /\ removed' = removed \cup db[u].deleted
          /\ UNCHANGED <<parking_records, lastID, faults, callLog>>
       \/ StatementRejected(u)
    /\ StoreStep

----------------------------------------------------------------------------
(* The media-group coordinator: onItemArrived and its debounce window      *)

\* an item of a media group: its arrival number in the group and what OCR
\* and extraction will make of it (NoTicket: nothing usable)
Item(g, n, timeData) == [group |-> g, n |-> n, timeData |-> timeData]

\* mutant: an arrival leaves a running window as it is
RestartWindowKeep(timer) == IF timer = NoTimer THEN DebounceMs ELSE timer

\* every arrival (re)starts the window
RestartWindow(timer) == DebounceMs

RECURSIVE SumOver(_, _)
SumOver(f, S) ==
    IF S = {} THEN 0
    ELSE LET x == CHOOSE y \in S : TRUE IN f[x] + SumOver(f, S \ {x})

\* onItemArrived(groupId, item)
OnItemArrived(g, timeData) ==
    /\ SumOver(mgArrived, Groups) < MaxArrivals
    /\ mgItems' = [mgItems EXCEPT
                     ![g] = Append(@, Item(g, mgArrived[g] + 1, timeData))]
    /\ mgTimer' = [mgTimer EXCEPT ![g] = RestartWindow(@)]
    /\ mgQuiet' = [mgQuiet EXCEPT ![g] = 0]
    /\ mgArrived' = [mgArrived EXCEPT ![g] = @ + 1]
    /\ bSummary' = NoSummary
    /\ UNCHANGED <<mgHanded, bItems, bCount, bPc>>
    /\ UNCHANGED <<botVars, splitVars, auxVars>>

Armed == { g \in Groups : mgTimer[g] # NoTimer }

\* the time that passes in one step: at most up to the next window's end
ElapseBy ==
    LET least == CHOOSE t \in { mgTimer[g] : g \in Armed } :
                    \A g \in Armed : t <= mgTimer[g]
    IN IF least < ElapseMs THEN least ELSE ElapseMs

\* time passes with no arrival; a window that is over fires before more
\* time passes
Elapse ==
    /\ Armed # {}
    /\ \A g \in Armed : mgTimer[g] > 0
    /\ mgTimer' = [g \in Groups |->
                     IF g \in Armed THEN mgTimer[g] - ElapseBy ELSE NoTimer]
    /\ mgQuiet' = [g \in Groups |->
                     IF g \in Armed THEN mgQuiet[g] + ElapseBy ELSE mgQuiet[g]]
    /\ bSummary' = NoSummary
    /\ UNCHANGED <<mgItems, mgArrived, mgHanded, bItems, bCount, bPc>>
    /\ UNCHANGED <<botVars, splitVars, auxVars>>

\* the window of group g is over: the accumulated items are handed, as a
\* whole, to the per-user gate, which turns them away while the user has a
\* submission in flight
WindowElapsed(g) ==
    /\ mgTimer[g] = 0
    /\ mgItems' = [mgItems EXCEPT ![g] = <<>>]
    /\ mgTimer' = [mgTimer EXCEPT ![g] = NoTimer]
    /\ mgHanded' = [mgHanded EXCEPT ![g] = @ + Len(mgItems[g])]
    /\ IF InFlight(isProcessing, BatchUser)
       THEN /\ bSummary' = [NoSummary EXCEPT !.kind = "wait"]
            /\ UNCHANGED <<isProcessing, bItems, bCount, bPc>>
       ELSE /\ isProcessing' = [isProcessing EXCEPT ![BatchUser] = TRUE]
            /\ bItems' = mgItems[g]
            /\ bCount' = ZeroCount
            /\ bPc' = "run"
            /\ bSummary' = NoSummary
    /\ UNCHANGED <<mgQuiet, mgArrived>>
    /\ UNCHANGED <<storeVars, hp, lastAnswer, requests, tick, photos, busy,
                   faults>>
    /\ UNCHANGED <<splitVars, auxVars>>

----------------------------------------------------------------------------
(* processBatch: the items of a batch, one after the other                 *)

\* mutant: a duplicate is tallied as a failure
TallyDuplicateAsFailed(count, outcome) ==
    IF outcome = "duplicates"
    THEN [count EXCEPT !.failed = @ + 1]
    ELSE [count EXCEPT ![outcome] = @ + 1]

\* counts are tallied
Tally(count, outcome) == [count EXCEPT ![outcome] = @ + 1]

\* mutant: a failed item is not counted as processed
TalliedWithoutFailed(count) == count.succeeded + count.duplicates

\* the number of items of the batch that have been processed
Tallied(count) == count.succeeded + count.duplicates + count.failed

\* addSession: the session row and the increment (or creation) of its
\* month's total
AddSessionTotals(tots, chatId, timeData) ==
    LET split == EngineSplit(timeData)
        month == MonthOf(timeData.startDateTime)
        year == YearOf(timeData.startDateTime)
    IN IF UpdateChanges(tots, chatId, month, year) = 0
       THEN tots \cup {TotalRow(chatId, month, year,
                                split.dayMinutes, split.nightMinutes)}
       ELSE UpdateTotals(tots, chatId, month, year,
                         split.dayMinutes, split.nightMinutes)

\* the next item runs through OCR, extraction and the accounting engine
ProcessBatchItem ==
    /\ bPc = "run"
    /\ Tallied(bCount) < Len(bItems)
    /\ LET timeData == bItems[Tallied(bCount) + 1].timeData
           isDuplicate == checkDuplicateRecord(parking_records, BatchChat,
                              timeData.carPlate, timeData.startDateTime)
           split == EngineSplit(timeData)
       IN \/ /\ timeData = NoTicket             \* OCR or extraction failed
             /\ bCount' = Tally(bCount, "failed")
             /\ UNCHANGED <<storeVars, faults>>
          \/ /\ timeData # NoTicket /\ isDuplicate
             /\ bCount' = Tally(bCount, "duplicates")
             /\ UNCHANGED <<storeVars, faults>>
          \/ /\ timeData # NoTicket /\ ~isDuplicate
             /\ parking_records' = parking_records \cup
                    {RecordRow(lastID + 1, BatchChat, BatchUser, timeData,
                               split.dayMinutes, split.nightMinutes, now)}
             /\ lastID' = lastID + 1
             /\ monthly_totals' =
                    AddSessionTotals(monthly_totals, BatchChat, timeData)
             /\ bCount' = Tally(bCount, "succeeded")
             /\ UNCHANGED faults
          \/ /\ timeData # NoTicket /\ ~isDuplicate   \* PersistenceError
             /\ faults < MaxFaults
             /\ faults' = faults + 1
             /\ bCount' = Tally(bCount, "failed")
             /\ UNCHANGED storeVars
    /\ bSummary' = NoSummary
    /\ UNCHANGED <<mgItems, mgTimer, mgQuiet, mgArrived, mgHanded, bItems, bPc>>
    /\ UNCHANGED <<isProcessing, hp, lastAnswer, requests, tick, photos,
                   busy>>
    /\ UNCHANGED <<splitVars, auxVars>>

\* every item is processed: the one consolidated summary, counts and the
\* resulting current total, and the user's flag is cleared
ProcessBatchSummary ==
    /\ bPc = "run"
    /\ Tallied(bCount) = Len(bItems)
    /\ bSummary' = [kind |-> "summary",
                    count |-> bCount,
                    currentTotal |->
                        getCurrentMonthTotal(monthly_totals, BatchChat, now)]
    /\ bPc' = "idle"
    /\ isProcessing' = [isProcessing EXCEPT ![BatchUser] = FALSE]
    /\ UNCHANGED <<mgItems, mgTimer, mgQuiet, mgArrived, mgHanded,
                   bItems, bCount>>
    /\ UNCHANGED <<storeVars, hp, lastAnswer, requests, tick, photos, busy,
                   faults>>
    /\ UNCHANGED <<splitVars, auxVars>>
----------------------------------------------------------------------------
(* The bot: every handler that setupHandlers registers (bot.js lines       *)
(* 333-341) and the callback_query listeners                               *)

Next ==
    \/ \E u \in Users, c \in Chats : HandlePhotoBusy(u, c)
    \/ \E u \in Users : HandlePhotoBusySent(u)
    \/ \E u \in Users, c \in Chats : HandlePhotoAccept(u, c)
    \/ \E u \in Users : HandlePhotoExtract(u)
    \/ \E u \in Users : HandlePhotoCheckDuplicate(u)
    \/ \E u \in Users : HandlePhotoStore(u)
    \/ \E u \in Users : HandlePhotoSent(u)
    \/ \E u \in Users : HandlePhotoCaught(u)
    \/ \E c \in CommandChats : HandleStart(c)
    \/ \E c \in CommandChats : HandleHelp(c)
    \/ \E c \in CommandChats : HandleDocument(c)
    \/ \E k \in 1..MaxCommands : UnguardedSent(k)
    \/ \E c \in CommandChats : HandleCurrent(c)
    \/ \E k \in 1..MaxCommands : HandleCurrentRead(k)
    \/ \E c \in CommandChats : HandleHistory(c)
    \/ \E k \in 1..MaxCommands : HandleHistoryRead(k)
    \/ \E c \in CommandChats : HandleRecent(c)
    \/ \E k \in 1..MaxCommands : CommandSent(k)
    \/ \E k \in 1..MaxCommands : CommandCaught(k)
    \/ \E u \in Users, c \in Chats : HandleReset(u, c)
    \/ \E i \in 1..MaxRequests : HandleResetRead(i)
    \/ \E i \in 1..MaxRequests : HandleResetSent(i)
    \/ \E i \in 1..MaxRequests : HandleResetCaught(i)
    \/ \E v \in Users, m \in 1..MaxRequests, kind \in {"confirm", "cancel"} :
          CallbackQuery(v, m, kind)
    \/ \E i \in 1..MaxRequests : ListenerAlerted(i)
    \/ \E i \in 1..MaxRequests : ResetDeleteRecords(i)
    \/ \E i \in 1..MaxRequests : ResetDeleteTotals(i)
    \/ \E i \in 1..MaxRequests : ListenerEdited(i)
    \/ \E i \in 1..MaxRequests : ListenerAnswered(i)
    \/ Tick

Spec == Init /\ [][Next]_vars

----------------------------------------------------------------------------
(* The bot with its handlers run to their end: every awaited call of a     *)
(* handler returns or throws, so a handler that has started takes its next *)
(* step                                                                    *)

\* the steps of handlePhoto after the gate
HandlePhotoContinues(u) ==
    \/ HandlePhotoExtract(u)
    \/ HandlePhotoCheckDuplicate(u)
    \/ HandlePhotoStore(u)
    \/ HandlePhotoSent(u)
    \/ HandlePhotoCaught(u)

SpecFair == Spec /\ \A u \in Users : WF_vars(HandlePhotoContinues(u))

----------------------------------------------------------------------------
(* Database alone, called through its methods                              *)

StoreNext ==
    \/ \E u \in Users, c \in Chats, a \in CallArguments :
          CheckDuplicateRecord(u, c, a)
    \/ \E u \in Users : CheckDuplicateRecordSelect(u)
    \/ \E u \in Users : AddParkingRecord(u)
    \/ \E u \in Users : AddParkingRecordInsert(u)
    \/ \E u \in Users : UpdateMonthlyTotalUpdate(u)
    \/ \E u \in Users : UpdateMonthlyTotalInsert(u)
    \/ \E u \in Users, c \in Chats : GetCurrentMonthTotal(u, c)
    \/ \E u \in Users : GetCurrentMonthTotalSelect(u)
    \/ \E u \in Users, c \in Chats : GetCurrentMonthRecords(u, c)
    \/ \E u \in Users : GetCurrentMonthRecordsSelect(u)
    \/ \E u \in Users, c \in Chats : ResetCurrentMonth(u, c)
    \/ \E u \in Users : DeleteParkingRecords(u)
    \/ \E u \in Users : DeleteMonthlyTotals(u)
    \/ Tick

SpecStore == Init /\ [][StoreNext]_vars

----------------------------------------------------------------------------
(* The splitter alone: its inputs are drawn by SplitEnter                  *)

SplitInit == BotInit /\ SplitEnter /\ BatchIdle /\ QueryIdle

SplitNext == SplitIterate \/ SplitReturn

SpecSplit == SplitInit /\ [][SplitNext]_vars

\* the loop runs to completion once entered: calculateDayNightSplit is
\* synchronous code
SpecSplitFair == SpecSplit /\ WF_vars(SplitNext)

----------------------------------------------------------------------------
(* The splitter on any pair of instants, an end before the start included  *)

\* how far before the start an end may lie
BackLengths ==
    { 1, 30, 60, 25 * SecPerMinute, SecPerHour, 8 * SecPerHour,
      21 * SecPerHour, SecPerDay }

\* lines 39-45 for an end that lies before the start, such as the ticket
\* printed 23:00 to 01:00 whose two instants carry the same date
SplitEnterReversed ==
    /\ sStart \in SplitStarts
    /\ \E back \in BackLengths : sEnd = sStart - back
    /\ sEnd >= 0
    /\ sCurrent = sStart
    /\ sDay = 0 /\ sNight = 0 /\ sIter = 0
    /\ sPc = "loop"

SplitAnyInit ==
    /\ BotInit /\ BatchIdle /\ QueryIdle
    /\ SplitEnter \/ SplitEnterReversed

SpecSplitAny == SplitAnyInit /\ [][SplitNext]_vars

----------------------------------------------------------------------------
(* Two reset confirmations pending at once, and one submission by a user   *)
(* who is a member of every chat                                           *)

\* bound of the runs with several pending confirmations
MaxPending == 2

InEveryChat == { u \in Users : \A c \in Chats : u \in Members[c] }

\* no photo message has been dispatched yet
OneSubmission == photos = 0

ConfirmNext ==
    \/ \E u \in InEveryChat, c \in Chats :
          OneSubmission /\ HandlePhotoAccept(u, c)
    \/ \E u \in InEveryChat : HandlePhotoExtract(u)
    \/ \E u \in InEveryChat : HandlePhotoCheckDuplicate(u)
    \/ \E u \in InEveryChat : HandlePhotoStore(u)
    \/ \E u \in InEveryChat : HandlePhotoSent(u)
    \/ \E u \in InEveryChat : HandlePhotoCaught(u)
    \/ \E u \in Users, c \in Chats : HandleResetUpTo(u, c, MaxPending)
    \/ \E i \in 1..MaxPending : HandleResetRead(i)
    \/ \E i \in 1..MaxPending : HandleResetSent(i)
    \/ \E i \in 1..MaxPending : HandleResetCaught(i)
    \/ \E v \in Users, m \in 1..MaxPending, kind \in {"confirm", "cancel"} :
          CallbackQuery(v, m, kind)
    \/ \E i \in 1..MaxPending : ListenerAlerted(i)
    \/ \E i \in 1..MaxPending : ResetDeleteRecords(i)
    \/ \E i \in 1..MaxPending : ResetDeleteTotals(i)
    \/ \E i \in 1..MaxPending : ListenerEdited(i)
    \/ \E i \in 1..MaxPending : ListenerAnswered(i)

SpecConfirm == Init /\ [][ConfirmNext]_vars

----------------------------------------------------------------------------
(* Database.resetAll, the store operation behind the full reset            *)

\* mutant: the DELETE of the sessions has no WHERE clause
DeleteAllRecordsEveryChat(recs, chatId) == {}

\* every session of the chat is deleted, whatever its month
DeleteAllRecords(recs, chatId) == { r \in recs : r.chat_id # chatId }

\* every monthly total of the chat is deleted
DeleteAllTotals(tots, chatId) == { row \in tots : row.chat_id # chatId }

\* the chat has no session and no monthly total
NoHistory(recs, tots, chatId) ==
    /\ \A r \in recs : r.chat_id # chatId
    /\ \A row \in tots : row.chat_id # chatId

\* resetAll(chat), called for a member's confirmed full reset: both deletes
\* happen together or, when the store fails, not at all; a chat without
\* history gets the "nothing to reset" result
ResetAll(u, c) ==
    /\ Serving
    /\ u \in Members[c]
    /\ \/ /\ NoHistory(parking_records, monthly_totals, c)
          /\ Answer(u, "nohistory", ZeroTotal)
          /\ UNCHANGED <<storeVars, faults>>
       \/ /\ ~NoHistory(parking_records, monthly_totals, c)
          /\ parking_records' = DeleteAllRecords(parking_records, c)
          /\ monthly_totals' = DeleteAllTotals(monthly_totals, c)
          /\ Answer(u, "resetall", ZeroTotal)
          /\ UNCHANGED <<lastID, faults>>
       \/ /\ ~NoHistory(parking_records, monthly_totals, c)
          /\ faults < MaxFaults
          /\ faults' = faults + 1
          /\ Answer(u, "error", ZeroTotal)
          /\ UNCHANGED storeVars
    /\ UNCHANGED <<isProcessing, hp, requests, tick, photos, busy>>
    /\ UNCHANGED <<splitVars, batchVars, auxVars>>

\* the sessions that the chats hold are added through Database's methods
ResetAllNext ==
    \/ \E u \in Users, c \in Chats, a \in {SessionA, SessionB, SessionC} :
          CheckDuplicateRecord(u, c, a)
    \/ \E u \in Users : CheckDuplicateRecordSelect(u)
    \/ \E u \in Users : AddParkingRecord(u)
    \/ \E u \in Users : AddParkingRecordInsert(u)
    \/ \E u \in Users : UpdateMonthlyTotalUpdate(u)
    \/ \E u \in Users : UpdateMonthlyTotalInsert(u)
    \/ \E u \in Users, c \in Chats : ResetAll(u, c)
    \/ Tick

SpecResetAll == Init /\ [][ResetAllNext]_vars

----------------------------------------------------------------------------
(* getMonthlyHistory alone: the table holds up to MaxMonths months of a    *)
(* chat, as it does after that many months of use                          *)

\* bound of the tables queried
MaxMonths == 14

\* the k-th month counted from `first` of BaseYear on, as <<month, year>>
MonthAfter(first, k) ==
    <<((first - 1 + k) % 12) + 1, BaseYear + ((first - 1 + k) \div 12)>>

\* the total row of chat c for the k-th month
HistoryRow(c, first, k) ==
    TotalRow(c, MonthAfter(first, k)[1], MonthAfter(first, k)[2],
             10 + k, 100 + k)

\* the sets of month numbers a chat may have rows for: the first n months,
\* or every other one of them
MonthSets ==
    { 0..(n - 1) : n \in 0..MaxMonths }
        \cup { { k \in 0..(n - 1) : k % 2 = 1 } : n \in {MaxMonths} }

HistoryTables ==
    { { HistoryRow("c1", first, k) : k \in S1 }
         \cup { HistoryRow("c2", first, k) : k \in S2 } :
        first \in {1, 6, 12}, S1 \in MonthSets,
        S2 \in { {}, {0}, 0..(MaxMonths - 1) } }

HistoryInit ==
    /\ parking_records = {}
    /\ monthly_totals \in HistoryTables
    /\ lastID = 0
    /\ isProcessing = [u \in Users |-> FALSE]
    /\ hp = [u \in Users |-> HpIdle]
    /\ lastAnswer = NoAnswer
    /\ requests = <<>>
    /\ tick = 0
    /\ photos = 0
    /\ busy = [u \in Users |-> 0]
    /\ faults = 0
    /\ db = [u \in Users |-> DbIdle]
    /\ callLog = NoCalls
    /\ removed = {}
    /\ commands = <<>>
    /\ submitted = {}
    /\ SplitIdle /\ BatchIdle /\ QueryIdle

\* part_003 lines 233-251: one call of getMonthlyHistory(chatId); its SELECT
\* settles with the rows and the call resolves with them (lines 246-247),
\* or the SELECT is rejected and so is the call (lines 244-245)
GetMonthlyHistory(c) ==
    /\ hPc = "off"
    /\ hChat' = c
    /\ \/ /\ hHistory' = getMonthlyHistory(monthly_totals, c)
          /\ hPc' = "done"
       \/ /\ hHistory' = hHistory
          /\ hPc' = "rejected"
    /\ UNCHANGED <<botVars, splitVars, batchVars, parseVars, startVars,
                   callVars, commands, submitted>>

HistoryNext == \E c \in Chats : GetMonthlyHistory(c)

SpecHistory == HistoryInit /\ [][HistoryNext]_vars

----------------------------------------------------------------------------
(* GeminiParser.parseTimeRange alone: what its validation makes of the     *)
(* extractor's response (geminiParser.js lines 52-106)                     *)

\* a JSON value's member as JavaScript reads it: "absent" is undefined
AbsentNumber == [type |-> "absent", value |-> 0]

DurationFields ==
    { AbsentNumber,
      [type |-> "number", value |-> 0],
      [type |-> "number", value |-> 480],
      [type |-> "number", value |-> 0 - 30],
      [type |-> "string", value |-> 480] }

\* the members of an array or a number read as undefined
NoMembers(kind) ==
    [kind |-> kind, success |-> "absent", startTime |-> "absent",
     endTime |-> "absent", durationMinutes |-> AbsentNumber,
     error |-> "absent"]

\* what generateContent and JSON.parse can hand to the validation: the call
\* rejects, the text is no JSON, or it is the JSON null, an array, a number
\* or an object with any of the members
Responses ==
    { NoMembers(k) : k \in {"rejects", "text", "null", "array", "number"} }
        \cup [kind : {"object"},
              success : {"absent", "true", "false"},
              startTime : {"absent", "", "09:00"},
              endTime : {"absent", "", "17:00"},
              durationMinutes : DurationFields,
              error : {"absent", "", "No time range found"}]

\* JavaScript truthiness of a member: undefined, false and "" are falsy
Truthy(v) == v \notin {"absent", "false", ""}

\* the JavaScript remainder a % b for b > 0, which has the sign of a
Remainder(a, b) == IF a >= 0 THEN a % b ELSE 0 - ((0 - a) % b)

\* lines 109-111: Math.floor(minutes / 60) and minutes % 60, the hours and
\* the remaining minutes of the formatted duration
formatDuration(minutes) ==
    [hours |-> minutes \div 60, mins |-> Remainder(minutes, 60)]

NoDuration == [hours |-> 0, mins |-> 0]

ParseResult(success, start, end, minutes, formatted, error) ==
    [success |-> success, startTime |-> start, endTime |-> end,
     durationMinutes |-> minutes, durationFormatted |-> formatted,
     error |-> error]

Failure(error) ==
    ParseResult(FALSE, "absent", "absent", AbsentNumber, NoDuration, error)

\* line 75: the members that make a success
ValidSuccess(r) ==
    /\ Truthy(r.success)
    /\ Truthy(r.startTime)
    /\ Truthy(r.endTime)
    /\ r.durationMinutes.type = "number"

\* lines 75-98: the validation of the parsed response
Validate(r) ==
    IF ValidSuccess(r)
    THEN ParseResult(TRUE, r.startTime, r.endTime, r.durationMinutes,
                     formatDuration(r.durationMinutes.value), "none")
    ELSE IF ~Truthy(r.success)
         THEN Failure(IF Truthy(r.error) THEN r.error
                      ELSE "Unknown parsing error")
         ELSE Failure("Invalid response format from AI")

\* lines 52-106: a rejected call and a member read of null (a TypeError) end
\* in the outer catch, a text that is no JSON in the inner one
parseTimeRange(r) ==
    IF r.kind = "rejects" THEN Failure("API error")
    ELSE IF r.kind = "text" THEN Failure("Failed to parse AI response")
    ELSE IF r.kind = "null" THEN Failure("API error")
    ELSE Validate(r)

ParseInit ==
    /\ BotInit /\ SplitIdle /\ BatchIdle /\ HistoryIdle /\ Started
    /\ pResponse \in Responses
    /\ pResult = Failure("none")
    /\ pPc = "called"

\* one call of parseTimeRange
ParseTimeRange ==
    /\ pPc = "called"
    /\ pResult' = parseTimeRange(pResponse)
    /\ pPc' = "done"
    /\ UNCHANGED <<botVars, splitVars, batchVars, historyVars, startVars,
                   callVars, commands, submitted, pResponse>>

ParseNext == ParseTimeRange

SpecParse == ParseInit /\ [][ParseNext]_vars

----------------------------------------------------------------------------
(* ParkingBot.init from the constructed bot on (bot.js lines 320-331),     *)
(* followed by the handlers it sets up                                     *)

\* the steps of init in their order, each with the component it belongs to
InitSteps ==
    <<[pc |-> "dbOpen", component |-> "store"],
      [pc |-> "createTables", component |-> "store"],
      [pc |-> "addNewColumns", component |-> "store"],
      [pc |-> "ocrInit", component |-> "ocr"],
      [pc |-> "ensureDirectories", component |-> "ocr"],
      [pc |-> "setupHandlers", component |-> "bot"]>>

StartupInit ==
    /\ BotInit /\ SplitIdle /\ BatchIdle /\ HistoryIdle /\ ParseIdle
    /\ stPc = InitSteps[1].pc
    /\ stFailed = "none"

\* lines 322-324: an awaited step of init resolves and the next one starts;
\* line 325: setupHandlers, which is synchronous and awaits nothing
InitStepResolves(i) ==
    /\ stPc = InitSteps[i].pc
    /\ stPc' = IF i = Len(InitSteps) THEN "serving" ELSE InitSteps[i + 1].pc
    /\ UNCHANGED <<stFailed, botVars, splitVars, batchVars, historyVars,
                   parseVars, callVars, commands, submitted>>

\* the steps of init that cannot reject: ensureDirectories catches what its
\* mkdir throws (part_002 lines 216-229), and setupHandlers is not
\* awaited
NeverRejects == {"ensureDirectories", "setupHandlers"}

\* lines 327-330: an awaited step rejects, the catch logs and calls
\* process.exit(1)
InitStepRejects(i) ==
    /\ stPc = InitSteps[i].pc
    /\ InitSteps[i].pc \notin NeverRejects
    /\ stFailed' = InitSteps[i].component
    /\ stPc' = "exited"
    /\ UNCHANGED <<botVars, splitVars, batchVars, historyVars, parseVars,
                   callVars, commands, submitted>>

StartupNext ==
    \/ \E i \in 1..Len(InitSteps) : InitStepResolves(i)
    \/ \E i \in 1..Len(InitSteps) : InitStepRejects(i)
    \/ Next

SpecStartup == StartupInit /\ [][StartupNext]_vars

----------------------------------------------------------------------------
(* The media-group coordinator and processBatch alone                      *)

BatchNext ==
    \/ \E g \in Groups, t \in BatchTickets \cup {NoTicket} :
          OnItemArrived(g, t)
    \/ Elapse
    \/ \E g \in Groups : WindowElapsed(g)
    \/ ProcessBatchItem
    \/ ProcessBatchSummary

SpecBatch == Init /\ [][BatchNext]_vars

----------------------------------------------------------------------------
(* Properties of the day/night split, checked under SpecSplit             *)

\* the loop has returned: sDay and sNight are the result for sStart, sEnd
SplitDone == sPc = "done"

WholeMinute(t) == t % SecPerMinute = 0

\* a 00:00 or 08:00 boundary lies strictly between start and end
BoundaryInside(start, end) ==
    \E d \in (start \div SecPerDay)..(end \div SecPerDay),
       h \in {0, DayStartHour} :
        LET b == d * SecPerDay + h * SecPerHour
        IN start < b /\ b < end

\* the one-minute slots [m, m+1) of [start, end), counted one by one
MinuteSlots(start, end) ==
    (start \div SecPerMinute)..((end \div SecPerMinute) - 1)

SlotIsDay(m) == (m % (MidnightHour * 60)) >= DayStartHour * 60

DaySlots(start, end) ==
    Cardinality({ m \in MinuteSlots(start, end) : SlotIsDay(m) })

NightSlots(start, end) ==
    Cardinality({ m \in MinuteSlots(start, end) : ~SlotIsDay(m) })

\* C5 as stated: for every start <= end the day and night minutes of the
\* split add up to the whole minutes between start and end
C5_SumIsWholeInterval ==
    SplitDone => sDay + sNight = MinutesBetween(sStart, sEnd)

\* C5 amended: the day and night minutes add up to the whole minutes between
\* start and end whenever start is a whole-minute instant or no 00:00 or
\* 08:00 boundary lies strictly inside the interval
C5_SumIsWholeIntervalAligned ==
    (SplitDone /\ (WholeMinute(sStart) \/ ~BoundaryInside(sStart, sEnd)))
        => /\ sDay + sNight = MinutesBetween(sStart, sEnd)
           /\ calculateDayNightSplit(sStart, sEnd).totalMinutes
                 = MinutesBetween(sStart, sEnd)

\* a whole-minute start, an end inside a minute, three segments summed
C5_Witness ==
    /\ SplitDone
    /\ WholeMinute(sStart) /\ ~WholeMinute(sEnd)
    /\ sIter >= 3
    /\ sDay > 0 /\ sNight > 0
    /\ sDay + sNight = MinutesBetween(sStart, sEnd)

\* C6: for whole-minute instants the day minutes are the number of minutes
\* of [start, end) in [08:00, 24:00) and the night minutes the number in
\* [00:00, 08:00); 22:00 -> 03:00 is 120 day and 180 night, 22:35 -> 01:00
\* is 85 day and 60 night
C6_BucketsCountMinutes ==
    /\ (SplitDone /\ WholeMinute(sStart) /\ WholeMinute(sEnd))
          => /\ sDay = DaySlots(sStart, sEnd)
             /\ sNight = NightSlots(sStart, sEnd)
    /\ calculateDayNightSplit(At(1, 1, 22, 0), At(1, 2, 3, 0))
          = SplitResult(120, 180)
    /\ calculateDayNightSplit(At(1, 1, 22, 35), At(1, 2, 1, 0))
          = SplitResult(85, 60)

\* the split of 22:00 -> 03:00 has been computed by the loop
C6_Witness ==
    /\ SplitDone
    /\ sStart = At(1, 1, 22, 0) /\ sEnd = At(1, 2, 3, 0)
    /\ sDay = 120 /\ sNight = 180

\* C7: an interval within [08:00, 24:00) of one day, its end on 24:00
\* included, has no night minutes; an interval within [00:00, 08:00) of one
\* day, its end on 08:00 included, has no day minutes
C7_SingleBucket ==
    SplitDone =>
        /\ (getHours(sStart) >= DayStartHour
              /\ sEnd <= setHours(sStart, MidnightHour))
               => /\ sNight = 0
                  /\ sDay = MinutesBetween(sStart, sEnd)
        /\ (getHours(sStart) < DayStartHour
              /\ sEnd <= setHours(sStart, DayStartHour))
               => /\ sDay = 0
                  /\ sNight = MinutesBetween(sStart, sEnd)

\* a day interval that ends exactly on midnight
C7_Witness ==
    /\ SplitDone
    /\ getHours(sStart) >= DayStartHour
    /\ sStart < sEnd
    /\ sEnd = setHours(sStart, MidnightHour)
    /\ sDay > 0 /\ sNight = 0

----------------------------------------------------------------------------
(* Properties of Database, checked under SpecStore, and of handlePhoto,    *)
(* checked under Spec                                                      *)

\* the keys (chat, month, year) that either table mentions
StoreKeys ==
    { <<r.chat_id, r.month, r.year>> : r \in parking_records }
        \cup { <<row.chat_id, row.month, row.year>> : row \in monthly_totals }

SessionsOf(recs, k) ==
    { r \in recs : r.chat_id = k[1] /\ r.month = k[2] /\ r.year = k[3] }

TotalsOf(tots, k) ==
    { row \in tots : row.chat_id = k[1] /\ row.month = k[2] /\ row.year = k[3] }

RECURSIVE SumMinutes(_, _)
\* the sum of the day or the night minutes of a set of sessions, a session
\* without them (NULL) adding nothing
SumMinutes(rows, field) ==
    IF rows = {} THEN 0
    ELSE LET r == CHOOSE x \in rows : TRUE
         IN OrZero(IF field = "day" THEN r.day_minutes ELSE r.night_minutes)
                + SumMinutes(rows \ {r}, field)

\* the total stored for key k as it is read, zeros when it has no row
StoredTotal(tots, k) ==
    IF TotalsOf(tots, k) = {} THEN ZeroTotal
    ELSE LET row == CHOOSE x \in TotalsOf(tots, k) : TRUE
         IN [total |-> OrZero(row.total_duration_minutes),
             day |-> OrZero(row.total_day_minutes),
             night |-> OrZero(row.total_night_minutes)]

\* the stored totals of every key are the sums over its sessions
TotalsMatchSessions ==
    \A k \in StoreKeys :
        /\ Cardinality(TotalsOf(monthly_totals, k)) <= 1
        /\ StoredTotal(monthly_totals, k).day
              = SumMinutes(SessionsOf(parking_records, k), "day")
        /\ StoredTotal(monthly_totals, k).night
              = SumMinutes(SessionsOf(parking_records, k), "night")
        /\ StoredTotal(monthly_totals, k).total
              = SumMinutes(SessionsOf(parking_records, k), "day")
                  + SumMinutes(SessionsOf(parking_records, k), "night")

\* no two sessions of recs share (chat, plate, start instant)
KeysDistinct(recs) ==
    \A r1, r2 \in recs :
        (/\ r1.chat_id = r2.chat_id
         /\ r1.car_plate = r2.car_plate
         /\ r1.start_datetime = r2.start_datetime) => r1 = r2

\* no caller awaits a call of Database
AllAtRest == \A u \in Users : AtRest(u)

\* handlePhoto never gets a session into the store: the INSERT of every
\* addParkingRecord it calls is rejected, so the bot's tables stay empty
NothingStored ==
    /\ parking_records = {}
    /\ monthly_totals = {}
    /\ lastID = 0

\* C1 as stated: whenever no store operation is in progress the totals of
\* every (chat, month, year) equal the day and night sums of its sessions,
\* also after two users of a chat add a month's first sessions concurrently
\* (no statement failure is injected and no reset has run)
C1_TotalsEqualSessionSums ==
    (/\ AllAtRest
     /\ ~callLog.reset
     /\ faults = 0) => TotalsMatchSessions

\* C2 as stated: no two stored sessions share (chat, plate, start instant)
C2_NoTwoSessionsShareKey == KeysDistinct(parking_records)

\* the step rejects the addParkingRecord of caller u
AddFails(u) ==
    /\ db[u].op = "add"
    /\ ~AtRest(u)
    /\ db'[u].pc = "rejected"

\* C3 as stated: an addSession that fails leaves neither its session row
\* nor a changed total behind
C3_FailedAddStoresNothing ==
    [][\A u \in Users :
         AddFails(u) =>
            /\ \A r \in parking_records' : r.id # db[u].recordId
            /\ monthly_totals' = monthly_totals]_vars

\* the handler of user u is at the duplicate check of a submission whose
\* (chat, plate, start instant) an earlier submission has handed to
\* addParkingRecord, no other submission is in flight and no awaited call
\* has been rejected
Repeated(u) ==
    /\ hp[u].pc = "check"
    /\ SubmissionKey(u) \in submitted
    /\ \A x \in Users \ {u} : hp[x].pc = "idle"
    /\ faults = 0

CurrentKey(c) == <<c, MonthOf(now), YearOf(now)>>


\* the total `total` raised by the minutes of the arguments a
PlusArguments(total, a) ==
    [total |-> total.total + a.dayMinutes + a.nightMinutes,
     day |-> total.day + a.dayMinutes,
     night |-> total.night + a.nightMinutes]

\* the step is the statement after which the addParkingRecord of caller u
\* resolves
AddCompletes(u) ==
    /\ db[u].op = "add"
    /\ db[u].pc \in {"update", "instotal"}
    /\ db'[u].pc = "resolved"

\* the step settles the SELECT of the getCurrentMonthTotal of caller u
TotalResolves(u) ==
    /\ db[u].op = "total"
    /\ db[u].pc = "select"
    /\ db'[u].pc = "resolved"

\* C8: the statement that completes addParkingRecord for a session of the
\* current month raises the current month's total by exactly that session's
\* day and night minutes, with or without a total row before; no other
\* statement of the call changes a total, and a getCurrentMonthTotal
\* resolves with the stored total of the month in which it was called
C8_TotalReflectsSessionOnce ==
    [][\A u \in Users :
         LET k == CurrentKey(db[u].chatId)
             asked == <<db[u].chatId, MonthOf(db[u].asked),
                        YearOf(db[u].asked)>>
         IN /\ (AddCompletes(u) /\ CallMonth(u) = k)
                => StoredTotal(monthly_totals', k)
                      = PlusArguments(StoredTotal(monthly_totals, k),
                                      db[u].args)
            /\ (db[u].op = "add" /\ db'[u] # db[u] /\ ~AddCompletes(u))
                => monthly_totals' = monthly_totals
            /\ (AtRest(u) /\ db'[u].op = "total" /\ db'[u].pc = "select")
                => db'[u].asked = now
            /\ TotalResolves(u)
                => /\ db'[u].total = StoredTotal(monthly_totals, asked)
                   /\ monthly_totals' = monthly_totals]_vars

\* the getCurrentMonthTotal called after the second session of August was
\* added has resolved with the sum of both
C8_Witness ==
    \E u \in Users :
        /\ db[u].op = "total"
        /\ db[u].pc = "resolved"
        /\ db[u].total = [total |-> 445, day |-> 205, night |-> 240]
        /\ Cardinality(parking_records) = 2
        /\ AllAtRest
        /\ faults = 0 /\ tick = 0

----------------------------------------------------------------------------
(* Properties of the reset confirmation, checked under Spec                *)

\* C9 as stated: a confirm pressed by a user other than the requester is
\* rejected and leaves the request awaiting confirmation, so that the
\* requester's confirm still applies the reset
C9_RejectedConfirmKeepsRequestPending ==
    [][\A v \in Users, m \in 1..MaxRequests :
         (/\ m <= Len(requests)
          /\ requests[m].listening
          /\ v # requests[m].userId
          /\ CallbackQuery(v, m, "confirm"))
            => /\ requests'[m].reset = "none"
               /\ requests'[m].listening]_vars

\* C10: resetCurrentMonth runs only for a request whose confirm button was
\* pressed by the user who issued the request, in the request's chat; the
\* press of a button starts a reset for no request of another user, and
\* changes no session and no total
C10_ResetOnlyByInitiator ==
    [][/\ \A i \in 1..Len(requests') :
             requests'[i].reset # "none" =>
                /\ requests'[i].by = requests'[i].userId
                /\ requests'[requests'[i].pressed].chatId
                      = requests'[i].chatId
       /\ \A v \in Users, m \in 1..MaxPending, kind \in {"confirm", "cancel"} :
             CallbackQuery(v, m, kind) =>
                /\ \A i \in 1..Len(requests) :
                      requests[i].userId # v =>
                         /\ requests'[i].reset = requests[i].reset
                         /\ requests'[i].cb \in {requests[i].cb, "alert"}
                /\ parking_records' = parking_records
                /\ monthly_totals' = monthly_totals]_vars

\* one press of a confirm button has run the listeners of two requests: the
\* one of another user's request has got the alert and has started no
\* reset, the one of the presser's own request has run both DELETEs
C10_Witness ==
    \E i, j \in 1..Len(requests) :
        /\ requests[i].by # requests[i].userId
        /\ requests[i].by = requests[j].by
        /\ requests[i].cb \in {"alert", "returned"}
        /\ requests[i].reset = "none"
        /\ requests[j].by = requests[j].userId
        /\ requests[j].reset = "done"

----------------------------------------------------------------------------
(* Properties of resetCurrentMonth and of the reset command                *)

\* the key that request i's resetCurrentMonth fixed when it was called
ResetKey(i) == <<requests[i].chatId, requests[i].month, requests[i].year>>

\* the key that the resetCurrentMonth of caller u fixed when it was called
CallResetKey(u) ==
    <<db[u].chatId, MonthOf(db[u].asked), YearOf(db[u].asked)>>

\* C11: resetCurrentMonth fixes the calendar month and year of its call;
\* its first DELETE removes exactly the sessions of the chat in that month
\* and year, and its second removes that key's total row altogether; every
\* other session and every other total row is left as it was
C11_ResetRemovesExactlyTheMonth ==
    [][\A u \in Users :
         LET k == CallResetKey(u)
         IN /\ (db[u].op = "reset" /\ db[u].pc = "records"
                  /\ db'[u].pc = "totals")
                 => /\ SessionsOf(parking_records', k) = {}
                    /\ parking_records' =
                          parking_records \ SessionsOf(parking_records, k)
                    /\ monthly_totals' = monthly_totals
            /\ (db[u].op = "reset" /\ db[u].pc = "totals"
                  /\ db'[u].pc = "resolved")
                 => /\ TotalsOf(monthly_totals', k) = {}
                    /\ monthly_totals' =
                          monthly_totals \ TotalsOf(monthly_totals, k)
                    /\ parking_records' = parking_records
            /\ (AtRest(u) /\ db'[u].op = "reset" /\ db'[u].pc = "records")
                 => db'[u].asked = now]_vars

\* August of c1, which had a session and a nonzero total, has been reset
\* while September's session and total remain
C11_Witness ==
    \E u \in Users :
        /\ db[u].op = "reset"
        /\ db[u].pc = "resolved"
        /\ CallResetKey(u) = <<"c1", 8, BaseYear>>
        /\ db[u].deleted # {}
        /\ lastID = 2
        /\ SessionsOf(parking_records, <<"c1", 8, BaseYear>>) = {}
        /\ TotalsOf(monthly_totals, <<"c1", 8, BaseYear>>) = {}
        /\ Cardinality(SessionsOf(parking_records, <<"c1", 9, BaseYear>>)) = 1
        /\ StoredTotal(monthly_totals, <<"c1", 9, BaseYear>>).total = 90

\* the step is a reset command that appends request i
Requested(i) == Len(requests) = i - 1 /\ Len(requests') = i

\* the step settles the SELECT of request i, which resolves with the total
\* of the chat in the month of the call
ReadTotal(i) ==
    /\ i <= Len(requests)
    /\ requests[i].stage = "select"
    /\ requests'[i].stage \in {"send", "return"}

\* C12 as stated: a reset command in a chat whose current month has no
\* minutes stored is answered "nothing to reset": no buttons are offered, no
\* listener is registered, nothing is deleted, and the request never invokes
\* a reset
C12_ZeroTotalNothingToReset ==
    [][\A i \in 1..MaxRequests :
         /\ (ReadTotal(i)
               /\ getCurrentMonthTotal(monthly_totals, requests[i].chatId,
                                       requests[i].asked).total = 0)
              => /\ requests'[i].message = "nothing"
                 /\ requests'[i].stage = "return"
                 /\ parking_records' = parking_records
                 /\ monthly_totals' = monthly_totals
         /\ (i <= Len(requests) /\ requests[i].message = "nothing")
              => /\ ~requests'[i].listening
                 /\ requests'[i].reset = "none"]_vars

----------------------------------------------------------------------------
(* Chat isolation                                                          *)

RecordsOfChat(b) == { r \in parking_records : r.chat_id = b }

TotalsOfChat(b) == { row \in monthly_totals : row.chat_id = b }


\* the chats of the calls that the step makes or moves on
ActingChats ==
    { db[u].chatId : u \in { x \in Users : db'[x] # db[x] } }
        \cup { db'[u].chatId : u \in { x \in Users : db'[x] # db[x] } }

\* every query for chat b answers from the rows of chat b alone
QueriesReadOwnChat(b) ==
    /\ \A a \in CallArguments :
          checkDuplicateRecord(parking_records, b,
                               a.timeData.carPlate, a.timeData.startDateTime)
             = checkDuplicateRecord(RecordsOfChat(b), b,
                                    a.timeData.carPlate,
                                    a.timeData.startDateTime)
    /\ getCurrentMonthTotal(monthly_totals, b, now)
          = getCurrentMonthTotal(TotalsOfChat(b), b, now)
    /\ getMonthlyHistory(monthly_totals, b)
          = getMonthlyHistory(TotalsOfChat(b), b)
    /\ getCurrentMonthRecords(parking_records, b, now)
          = getCurrentMonthRecords(RecordsOfChat(b), b, now)

\* a session with the key of the call of caller u is stored in its chat
KeyStored(u) ==
    \E r \in RecordsOfChat(db[u].chatId) :
        /\ r.car_plate = db[u].args.timeData.carPlate
        /\ r.start_datetime = db[u].args.timeData.startDateTime

\* C13: a statement of a call made for one chat changes no session and no
\* total of another chat, every query for a chat answers from that chat's
\* rows alone, and a (plate, start instant) stored in another chat only is
\* not a duplicate
C13_ChatIsolation ==
    /\ [](\A b \in Chats : QueriesReadOwnChat(b))
    /\ [][/\ \A b \in Chats :
               b \notin ActingChats =>
                  /\ { r \in parking_records' : r.chat_id = b }
                        = RecordsOfChat(b)
                  /\ { row \in monthly_totals' : row.chat_id = b }
                        = TotalsOfChat(b)
          /\ \A u \in Users :
               (db[u].op = "check" /\ db[u].pc = "select"
                  /\ db'[u].pc = "resolved" /\ ~KeyStored(u))
                  => ~db'[u].duplicate]_vars

\* the same ticket is stored in both chats, each with its own total: the
\* duplicate check of the second chat has resolved false
C13_Witness ==
    /\ \E r1, r2 \in parking_records :
          /\ r1.chat_id = "c1" /\ r2.chat_id = "c2"
          /\ r1.car_plate = r2.car_plate
          /\ r1.start_datetime = r2.start_datetime
    /\ TotalsOfChat("c1") # {} /\ TotalsOfChat("c2") # {}
    /\ TotalsMatchSessions
    /\ AllAtRest
    /\ faults = 0

----------------------------------------------------------------------------
(* The per-user gate of handlePhoto                                        *)

\* C14: a user has a submission past the gate exactly while the user's flag
\* is set, and a submission in flight is never joined or replaced by another
\* of the same user; a photo answered "still processing" changes no table,
\* leaves every invocation where it was and clears no flag, neither when
\* it is answered nor when the send of that answer settles
C14_OneSubmissionPerUser ==
    [][\A u \in Users :
         /\ isProcessing[u] <=> hp[u].pc # "idle"
         /\ hp[u].pc # "idle" =>
               ~(hp'[u].pc = "extract" /\ hp'[u] # hp[u])
         /\ (lastAnswer'.kind = "wait" /\ lastAnswer'.userId = u)
               => /\ isProcessing[u]
                  /\ busy'[u] = busy[u] + 1
                  /\ isProcessing' = isProcessing
                  /\ hp' = hp
                  /\ parking_records' = parking_records
                  /\ monthly_totals' = monthly_totals
                  /\ lastID' = lastID
         /\ busy'[u] # busy[u]
               => /\ isProcessing' = isProcessing
                  /\ hp' = hp
                  /\ parking_records' = parking_records
                  /\ monthly_totals' = monthly_totals
                  /\ lastID' = lastID]_vars

\* a user was told to wait while the user's submission is about to call
\* addParkingRecord, and the send of that answer has settled
C14_Witness ==
    \E u \in Users :
        /\ photos = 2
        /\ busy[u] = 0
        /\ hp[u].pc = "insert"
        /\ hp[u].timeData = ParsedTicket
        /\ isProcessing[u]
        /\ lastAnswer = NoAnswer
        /\ \A x \in Users \ {u} : hp[x].pc = "idle" /\ ~isProcessing[x]
        /\ faults = 0

----------------------------------------------------------------------------
(* Properties of the media-group coordinator, checked under SpecBatch      *)

\* the (plate, start instant) keys of the items of the batch
BatchKeys ==
    { <<bItems[j].timeData.carPlate, bItems[j].timeData.startDateTime>> :
        j \in 1..Len(bItems) }

\* the summary just sent is that of a batch that met an empty store, all of
\* whose items were extracted and none of whose writes failed
CleanBatchSummarised ==
    /\ bSummary.kind = "summary"
    /\ lastID = bSummary.count.succeeded
    /\ \A j \in 1..Len(bItems) : bItems[j].timeData # NoTicket
    /\ faults = 0

\* C15: a batch some of whose items repeat the key of an earlier item is
\* summarised with succeeded = the number of distinct keys, duplicates = the
\* number of repeats and failed = 0, and the totals count every succeeded
\* item exactly once; items A, A, B give 2, 1, 0 and 145 + 300 minutes
C15_BatchCountsRepeatsOnce ==
    /\ CleanBatchSummarised =>
          /\ bSummary.count.succeeded = Cardinality(BatchKeys)
          /\ bSummary.count.duplicates = Len(bItems) - Cardinality(BatchKeys)
          /\ bSummary.count.failed = 0
          /\ Cardinality(parking_records) = bSummary.count.succeeded
          /\ KeysDistinct(parking_records)
          /\ TotalsMatchSessions
          /\ bSummary.currentTotal
                = StoredTotal(monthly_totals, CurrentKey(BatchChat))
    /\ (/\ CleanBatchSummarised
        /\ [j \in 1..Len(bItems) |-> bItems[j].timeData]
              = <<TicketA, TicketA, TicketB>>)
          => /\ bSummary.count
                   = [succeeded |-> 2, duplicates |-> 1, failed |-> 0]
             /\ bSummary.currentTotal
                   = [total |-> 445, day |-> 205, night |-> 240]

\* the batch A, A, B has been summarised
C15_Witness ==
    /\ CleanBatchSummarised
    /\ [j \in 1..Len(bItems) |-> bItems[j].timeData]
          = <<TicketA, TicketA, TicketB>>
    /\ bSummary.count.succeeded = 2
    /\ bSummary.count.duplicates = 1
    /\ Cardinality(parking_records) = 2

\* the items accumulated for a group are, in order of arrival, exactly the
\* arrived items that have not been handed off
PendingAreUnhanded(items, handed, arrived) ==
    /\ handed + Len(items) = arrived
    /\ \A j \in 1..Len(items) : items[j].n = handed + j

\* C16: the items of a media group are handed to processing only when a
\* full debounce window has passed since the group's last arrival, the
\* hand-off takes all the accumulated items at once, and every arrived item
\* is either still accumulated or has been handed exactly once
C16_DebouncedHandOffOnce ==
    [][\A g \in Groups :
         /\ PendingAreUnhanded(mgItems[g], mgHanded[g], mgArrived[g])
         /\ PendingAreUnhanded(mgItems'[g], mgHanded'[g], mgArrived'[g])
         /\ mgHanded'[g] >= mgHanded[g]
         /\ mgHanded'[g] # mgHanded[g] =>
               /\ mgQuiet[g] >= DebounceMs
               /\ mgArrived'[g] = mgArrived[g]
               /\ mgHanded'[g] = mgArrived[g]
               /\ mgItems'[g] = <<>>
               /\ ~isProcessing[BatchUser] => bItems' = mgItems[g]
         /\ mgArrived'[g] # mgArrived[g] =>
               /\ mgQuiet'[g] = 0
               /\ Len(mgItems'[g]) = Len(mgItems[g]) + 1]_vars

\* two items of one group, the second arriving inside the first one's
\* window, have been handed to processing together
C16_Witness ==
    /\ bPc = "run"
    /\ Len(bItems) = 2
    /\ bItems[1].group = bItems[2].group
    /\ bItems[1].n = 1 /\ bItems[2].n = 2
    /\ mgHanded[bItems[1].group] = 2
    /\ mgItems[bItems[1].group] = <<>>

----------------------------------------------------------------------------
(* Cancelling a reset, checked under SpecConfirm                           *)

\* the step is the requester of request i pressing its cancel button while
\* its listener is registered
CancelledByRequester(i) ==
    /\ i <= Len(requests)
    /\ requests[i].listening
    /\ CallbackQuery(requests[i].userId, i, "cancel")

\* the requester of request i has cancelled it: the listener is at the edit
\* or at the notice of the cancel branch, or the message says so
WasCancelled(i) ==
    /\ i <= Len(requests)
    /\ requests[i].pressed = i
    /\ requests[i].by = requests[i].userId
    /\ \/ requests[i].cb \in {"editCancelled", "answerCancelled"}
       \/ requests[i].cb = "returned" /\ requests[i].message = "cancelled"

\* C17 as stated: a cancel by the requester of a pending confirmation
\* changes no session and no total and starts no reset, and a later press
\* of the confirm button of that request starts no reset either
C17_CancelChangesNothing ==
    [][\A i \in 1..MaxPending :
         /\ CancelledByRequester(i) =>
               /\ requests'[i].cb = "editCancelled"
               /\ requests'[i].reset = "none"
               /\ ~requests'[i].listening
               /\ parking_records' = parking_records
               /\ monthly_totals' = monthly_totals
         /\ WasCancelled(i) =>
               \A v \in Users :
                  CallbackQuery(v, i, "confirm") =>
                     \A j \in 1..Len(requests) :
                        requests'[j].reset = requests[j].reset]_vars

----------------------------------------------------------------------------
(* The month a session is counted in, checked under SpecStore              *)

\* the key of the month in which the session of the call of caller u starts
StartKey(u) ==
    <<db[u].chatId, MonthOf(db[u].args.timeData.startDateTime),
      YearOf(db[u].args.timeData.startDateTime)>>

\* C18: a session row carries the month and year of its start instant and
\* the total it increments is that of the same month and year, whatever the
\* wall clock says when it is added: the session of 2025-08-23T22:35 and
\* the one starting 2025-08-31T22:00 and ending in September are counted in
\* August 2025
C18_BucketIsStartMonth ==
    [][/\ \A r \in parking_records' :
            /\ r.month = MonthOf(r.start_datetime)
            /\ r.year = YearOf(r.start_datetime)
            /\ r.start_datetime \in {TicketA.startDateTime,
                                     TicketB.startDateTime}
                  => r.month = 8 /\ r.year = BaseYear
       /\ \A u \in Users :
            AddCompletes(u)
               => /\ StoredTotal(monthly_totals', StartKey(u))
                        = PlusArguments(
                             StoredTotal(monthly_totals, StartKey(u)),
                             db[u].args)
                  /\ \A k \in StoreKeys :
                        k # StartKey(u) =>
                           TotalsOf(monthly_totals', k)
                              = TotalsOf(monthly_totals, k)]_vars

\* the session of 23 August was added in September: it is counted in
\* August and the total of September is still zero
C18_Witness ==
    /\ tick = 1
    /\ MonthOf(now) = 9
    /\ \E r \in parking_records :
          /\ r.start_datetime = TicketA.startDateTime
          /\ r.created_at = now
          /\ r.month = 8 /\ r.year = BaseYear
          /\ StoredTotal(monthly_totals, <<r.chat_id, 8, BaseYear>>)
                = [total |-> 145, day |-> 85, night |-> 60]
          /\ StoredTotal(monthly_totals, <<r.chat_id, 9, BaseYear>>)
                = ZeroTotal
    /\ Cardinality(parking_records) = 1
    /\ AllAtRest

----------------------------------------------------------------------------
(* Atomicity of resetCurrentMonth, checked under SpecStore                 *)

\* C20 as stated: whenever no call is in progress, also after a
\* resetCurrentMonth that ran next to an addParkingRecord or whose second
\* DELETE failed, no month has lost its sessions while keeping its total
\* row or kept a session while losing its total row (no addParkingRecord
\* has been rejected after its INSERT)
C20_ResetIsAtomic ==
    (AllAtRest /\ ~callLog.torn) =>
        \A k \in StoreKeys :
            SessionsOf(parking_records, k) = {}
                <=> TotalsOf(monthly_totals, k) = {}

----------------------------------------------------------------------------
(* The shape of the stored rows, checked under SpecStore                   *)

\* C21: in every state every monthly_totals row has total_duration_minutes
\* = total_day_minutes + total_night_minutes, from the INSERT that creates
\* the row through every UPDATE that increments it
C21_TotalIsDayPlusNight ==
    \A row \in monthly_totals :
        /\ row.total_duration_minutes # NULL
        /\ row.total_day_minutes # NULL
        /\ row.total_night_minutes # NULL
        /\ row.total_duration_minutes
              = row.total_day_minutes + row.total_night_minutes

\* August's row of c1 was created by one session and incremented by another
C21_Witness ==
    /\ \E row \in monthly_totals :
          /\ TotalKeyIs(row, "c1", 8, BaseYear)
          /\ row.total_duration_minutes = 445
          /\ row.total_day_minutes = 205
          /\ row.total_night_minutes = 240
    /\ Cardinality(SessionsOf(parking_records, <<"c1", 8, BaseYear>>)) = 2
    /\ AllAtRest

RECURSIVE SumDurations(_)
\* the sum of the stored durations of a set of sessions
SumDurations(rows) ==
    IF rows = {} THEN 0
    ELSE LET r == CHOOSE x \in rows : TRUE
         IN r.duration_minutes + SumDurations(rows \ {r})

\* every stored session has day_minutes + night_minutes = duration_minutes
SessionsAddUp ==
    \A r \in parking_records :
        /\ r.day_minutes # NULL /\ r.night_minutes # NULL
        /\ r.day_minutes + r.night_minutes = r.duration_minutes

\* C22 as stated: every stored session has day + night = duration, and the
\* stored durations of the sessions of every (chat, month, year) add up to
\* that key's total duration minutes (looked at while no store operation is
\* in progress, no statement failure is injected and no reset has run)
C22_DurationsSumToTotal ==
    (/\ AllAtRest
     /\ ~callLog.reset
     /\ faults = 0)
       => /\ SessionsAddUp
          /\ \A k \in StoreKeys :
                SumDurations(SessionsOf(parking_records, k))
                   = StoredTotal(monthly_totals, k).total

----------------------------------------------------------------------------
(* Termination of calculateDayNightSplit, checked under SpecSplitFair      *)

\* the instant is a 00:00 or an 08:00 of some day
IsBoundary(t) == t % SecPerDay \in {0, DayStartHour * SecPerHour}

\* the calendar days that [start, end] touches
DaysSpanned(start, end) == (end \div SecPerDay) - (start \div SecPerDay) + 1

\* C23: every iteration of the loop moves `current` strictly forward, by at
\* most 24 hours, to a 00:00 or 08:00 boundary or to end and never past end;
\* the loop runs at most twice per calendar day spanned; and the loop
\* returns, with current on end
C23_SplitTerminates ==
    /\ [][sCurrent' # sCurrent =>
            /\ sCurrent' > sCurrent
            /\ sCurrent' - sCurrent <= SecPerDay
            /\ sCurrent' <= sEnd
            /\ IsBoundary(sCurrent') \/ sCurrent' = sEnd
            /\ sIter' = sIter + 1
            /\ sIter' <= 2 * DaysSpanned(sStart, sEnd)]_vars
    /\ [](SplitDone => sCurrent = sEnd)
    /\ <>SplitDone

\* a span of more than two days has been walked in six iterations
C23_Witness ==
    /\ SplitDone
    /\ sEnd - sStart > 2 * SecPerDay
    /\ sIter = 6
    /\ sCurrent = sEnd

----------------------------------------------------------------------------
(* The zero-length interval                                                *)

\* C24: for start = end, at any clock time, 00:00 and 08:00 included, the
\* loop body never runs and the result is 0 day minutes and 0 night minutes
C24_ZeroLengthIsZero ==
    sStart = sEnd =>
        /\ sIter = 0
        /\ sCurrent = sStart
        /\ sDay = 0 /\ sNight = 0
        /\ SplitDone =>
              SplitResult(sDay, sNight)
                 = [dayMinutes |-> 0, nightMinutes |-> 0, totalMinutes |-> 0]

\* the split of an empty interval at exactly 08:00 has returned
C24_Witness ==
    /\ SplitDone
    /\ sStart = sEnd
    /\ sStart % SecPerDay = DayStartHour * SecPerHour
    /\ sDay = 0 /\ sNight = 0

----------------------------------------------------------------------------
(* Extraction failures                                                     *)

\* the step is the OCR-and-extraction stage of user u's submission
Extracts(u) == hp[u].pc = "extract" /\ hp'[u] # hp[u]

\* user u's handler has nothing left to do but to await the send of its
\* answer and to end the invocation
EndedFor(u) == hp'[u].pc \in {"send", "caught"} /\ isProcessing'[u]

\* C25: a photo from which OCR reads fewer than 5 characters is answered as
\* unreadable (or with the generic error), and a photo whose extraction
\* fails is answered with the extraction failure; in both cases the
\* handler stops there, before the duplicate check and addParkingRecord,
\* no session is inserted and no total is changed, and the handler does
\* nothing more for that photo than to end the invocation
C25_ExtractionFailureStoresNothing ==
    [][\A u \in Users :
         /\ (Extracts(u) /\ lastAnswer'.kind = "unreadable")
               => lastAnswer'.ocrLength < 5
         /\ (Extracts(u) /\ lastAnswer'.kind = "extractfail")
               => lastAnswer'.ocrLength >= 5
         /\ (Extracts(u)
               /\ lastAnswer'.kind \in {"unreadable", "extractfail", "error"})
               => /\ lastAnswer'.userId = u
                  /\ EndedFor(u)
                  /\ parking_records' = parking_records
                  /\ monthly_totals' = monthly_totals
                  /\ lastID' = lastID
                  /\ submitted' = submitted
         /\ (Extracts(u) /\ ~EndedFor(u))
               => /\ hp'[u].pc = "check"
                  /\ hp'[u].ocrLength >= 5
                  /\ hp'[u].timeData = ParsedTicket
                  /\ parking_records' = parking_records
                  /\ monthly_totals' = monthly_totals
         /\ (hp[u].pc \in {"send", "caught"} /\ hp'[u] # hp[u])
               => /\ hp'[u].pc = "caught" \/ hp'[u] = HpIdle
                  /\ parking_records' = parking_records
                  /\ monthly_totals' = monthly_totals
                  /\ lastID' = lastID
                  /\ submitted' = submitted
         /\ hp[u].pc = "idle"
               => (hp'[u] = hp[u] \/ hp'[u].pc = "extract")]_vars

\* a photo with four characters of text was answered as unreadable, and its
\* handler awaits the send of that answer, while the submission of another
\* user, whose text was read and extracted, is about to call
\* addParkingRecord
C25_Witness ==
    /\ lastAnswer.kind = "unreadable"
    /\ lastAnswer.ocrLength = 4
    /\ hp[lastAnswer.userId].pc = "send"
    /\ \E x \in Users \ {lastAnswer.userId} :
          /\ hp[x].pc = "insert"
          /\ hp[x].timeData = ParsedTicket
          /\ hp[x].ocrLength = 5
    /\ submitted = {}
    /\ faults = 0

----------------------------------------------------------------------------
(* Failures while an event is handled                                      *)

\* C26 as stated: no handler invocation ends with an uncaught fault, also
\* when the chat transport fails while the handler sends its notice, and the
\* dispatcher keeps serving events
C26_NoUncaughtFault ==
    /\ lastAnswer.kind # "uncaught"
    /\ Serving

----------------------------------------------------------------------------
(* A reset whose store operation fails, checked under SpecConfirm          *)

\* a DELETE of request i's resetCurrentMonth is rejected by the step
ResetRejected(i) ==
    /\ i <= Len(requests)
    /\ requests[i].reset \in {"records", "totals"}
    /\ requests'[i].reset = "failed"

\* the step settles the editMessageText of the catch of request i's
\* listener after its resetCurrentMonth was rejected
FailureEditSettles(i) ==
    /\ i <= Len(requests)
    /\ requests[i].reset = "failed"
    /\ requests[i].cb = "editFailed"
    /\ requests'[i].cb # "editFailed"

\* C27 as stated: when a DELETE of a confirmed reset fails nothing is
\* deleted by the failing statement and the message whose button was
\* pressed is edited to show the failure; the request is terminal from then
\* on: its reset is not run again, its listener stays removed, and a
\* further press of its confirm button starts no reset
C27_FailedResetIsTerminal ==
    [][\A i \in 1..MaxPending :
         /\ ResetRejected(i) =>
               /\ ~requests'[i].listening
               /\ parking_records' = parking_records
               /\ monthly_totals' = monthly_totals
         /\ FailureEditSettles(i) =>
               requests'[requests[i].pressed].message = "failed"
         /\ (i <= Len(requests) /\ requests[i].reset = "failed") =>
               /\ requests'[i].reset = "failed"
               /\ ~requests'[i].listening
               /\ \A v \in Users :
                     CallbackQuery(v, i, "confirm") =>
                        \A j \in 1..Len(requests) :
                           requests'[j].reset = requests[j].reset]_vars

----------------------------------------------------------------------------
(* Pending confirmations of different chats, checked under SpecConfirm     *)

\* request y is awaiting confirmation
AwaitingConfirmation(y) ==
    /\ y <= Len(requests)
    /\ requests[y].listening
    /\ requests[y].message = "buttons"
    /\ requests[y].reset = "none"

\* C28 as stated: a confirm, a cancel or an unauthorized attempt made on a
\* confirmation of chat X leaves a confirmation pending in another chat Y as
\* it was, awaiting confirmation, so that Y's initiator can still confirm or
\* cancel it
C28_PendingScopedPerChat ==
    [][\A v \in Users, m \in 1..MaxPending, kind \in {"confirm", "cancel"},
          y \in 1..MaxPending :
         (/\ m <= Len(requests)
          /\ AwaitingConfirmation(y)
          /\ requests[y].chatId # requests[m].chatId
          /\ CallbackQuery(v, m, kind))
            => /\ requests'[y] = requests[y]
               /\ requests'[y].listening]_vars

----------------------------------------------------------------------------
(* A store failure inside a batch, checked under SpecBatch                 *)

\* the step is the store failing on the item that processBatch is at
ItemWriteFails == bPc = "run" /\ faults' = faults + 1

\* the items of the batch accounted for in a count
Accounted(count) == count.succeeded + count.duplicates + count.failed

\* C29: a store failure on an item of a batch adds one to failed and to
\* nothing else, writes nothing, and leaves the batch running with the same
\* items; the item is not taken up again, every item of the batch is
\* accounted for exactly once when the summary is sent, and the summary is
\* sent also when no item succeeded
C29_BatchSurvivesStoreFailure ==
    [][/\ ItemWriteFails =>
             /\ bCount' = [bCount EXCEPT !.failed = @ + 1]
             /\ parking_records' = parking_records
             /\ monthly_totals' = monthly_totals
             /\ lastID' = lastID
             /\ bPc' = "run"
             /\ bItems' = bItems
       /\ bPc = "run" =>
             /\ Accounted(bCount) <= Len(bItems)
             /\ Accounted(bCount') <= Len(bItems')
             /\ bCount' # bCount =>
                   /\ Accounted(bCount') = Accounted(bCount) + 1
                   /\ bItems' = bItems
                   /\ bPc' = "run"
             /\ bPc' # "run" =>
                   /\ bSummary'.kind = "summary"
                   /\ bSummary'.count = bCount
                   /\ Accounted(bCount) = Len(bItems)
       /\ (bPc = "run" /\ Accounted(bCount) = Len(bItems))
             => ENABLED ProcessBatchSummary]_vars

\* a batch of two items whose first write failed has been summarised: one
\* failed, one succeeded and stored
C29_Witness ==
    /\ bSummary.kind = "summary"
    /\ faults = 1
    /\ Len(bItems) = 2
    /\ bItems[1].timeData # NoTicket /\ bItems[2].timeData # NoTicket
    /\ bSummary.count = [succeeded |-> 1, duplicates |-> 0, failed |-> 1]
    /\ Cardinality(parking_records) = 1

----------------------------------------------------------------------------
(* Properties of resetAll, checked under SpecResetAll                      *)

\* C30: resetAll(chat) leaves no session and no monthly total of the chat,
\* of whatever month, and leaves the rows of every other chat as they were;
\* for a chat without history it changes nothing and gives the "nothing to
\* reset" result, which a reset that deleted rows never gives
C30_ResetAllDeletesTheChat ==
    [][\A u \in Users, c \in Chats :
         ResetAll(u, c) =>
            /\ { r \in parking_records' : r.chat_id # c }
                  = { r \in parking_records : r.chat_id # c }
            /\ { row \in monthly_totals' : row.chat_id # c }
                  = { row \in monthly_totals : row.chat_id # c }
            /\ lastAnswer'.kind = "resetall" =>
                  /\ \A r \in parking_records' : r.chat_id # c
                  /\ \A row \in monthly_totals' : row.chat_id # c
                  /\ RecordsOfChat(c) # {} \/ TotalsOfChat(c) # {}
            /\ (RecordsOfChat(c) = {} /\ TotalsOfChat(c) = {}) =>
                  /\ lastAnswer'.kind = "nohistory"
                  /\ parking_records' = parking_records
                  /\ monthly_totals' = monthly_totals
            /\ lastAnswer'.kind = "nohistory" =>
                  RecordsOfChat(c) = {} /\ TotalsOfChat(c) = {}
            /\ lastAnswer'.kind \in {"resetall", "nohistory", "error"}
            /\ lastAnswer'.kind = "error" =>
                  /\ parking_records' = parking_records
                  /\ monthly_totals' = monthly_totals]_vars

\* one chat was reset altogether while the session and the total of the
\* other chat are still stored
C30_Witness ==
    /\ lastAnswer.kind = "resetall"
    /\ lastID = 2
    /\ \E b \in Chats :
          /\ RecordsOfChat(b) = {} /\ TotalsOfChat(b) = {}
          /\ \E d \in Chats \ {b} :
                /\ Cardinality(RecordsOfChat(d)) = 1
                /\ Cardinality(TotalsOfChat(d)) = 1

----------------------------------------------------------------------------
(* C31                                                                     *)

\* the rows of the chat asked for, as the query selects them
Selected ==
    { [month |-> row.month,
       year |-> row.year,
       total_duration_minutes |-> row.total_duration_minutes,
       total_day_minutes |-> row.total_day_minutes,
       total_night_minutes |-> row.total_night_minutes] :
      row \in { x \in monthly_totals : x.chat_id = hChat } }

\* row a is of a later month than row b
Newer(a, b) ==
    \/ a.year > b.year
    \/ a.year = b.year /\ a.month > b.month

Returned == { hHistory[i] : i \in 1..Len(hHistory) }

\* C31: getMonthlyHistory(chat) returns only rows of that chat, at most
\* twelve of them and all of them when the chat has at most twelve, the
\* most recent (year, month) first, and every row left out is older than
\* every row returned
C31_HistoryIsNewestTwelve ==
    hPc = "done" =>
        /\ Returned \subseteq Selected
        /\ Len(hHistory) <= HistoryLimit
        /\ Len(hHistory) = IF Cardinality(Selected) < HistoryLimit
                           THEN Cardinality(Selected) ELSE HistoryLimit
        /\ \A i \in 1..Len(hHistory) : \A j \in 1..Len(hHistory) :
              i < j => Newer(hHistory[i], hHistory[j])
        /\ \A out \in Selected \ Returned : \A in \in Returned :
              Newer(in, out)

\* a chat with more than twelve months, spanning two years, next to rows of
\* another chat, was asked for and twelve rows came back
C31_Witness ==
    /\ hPc = "done"
    /\ Cardinality(Selected) > HistoryLimit
    /\ Len(hHistory) = HistoryLimit
    /\ \E a \in Selected : \E b \in Selected : a.year # b.year
    /\ \E x \in monthly_totals : x.chat_id # hChat

----------------------------------------------------------------------------
(* C32                                                                     *)

\* the response is a JSON value
Parsed(r) == r.kind \in {"null", "array", "number", "object"}

\* the response is a success with start, end and a numeric duration
SuccessShape(r) ==
    /\ r.kind = "object"
    /\ r.success = "true"
    /\ r.startTime # "absent"
    /\ r.endTime # "absent"
    /\ r.durationMinutes.type = "number"

\* the response is a failure
FailureShape(r) == r.kind = "object" /\ r.success = "false"

\* C32: parseTimeRange returns a success with start, end and a numeric
\* duration, or a failure with a reason, and a parsed response of neither
\* shape (empty object, array, null, success without the time fields) comes
\* back as the failure 'invalid response format'
C32_OtherShapesAreInvalidFormat ==
    pPc = "done" =>
        /\ pResult.success =>
              /\ pResult.startTime \notin {"absent", ""}
              /\ pResult.endTime \notin {"absent", ""}
              /\ pResult.durationMinutes.type = "number"
        /\ ~pResult.success => pResult.error \notin {"absent", "", "none"}
        /\ (Parsed(pResponse) /\ ~SuccessShape(pResponse)
                /\ ~FailureShape(pResponse)) =>
              pResult = Failure("Invalid response format from AI")

----------------------------------------------------------------------------
(* C33                                                                     *)

\* the process has ended: init called process.exit, or a handler's
\* rejection was handled nowhere
Halted == stPc = "exited" \/ lastAnswer.kind = "uncaught"

\* C33: the process halts only when the store's initialization fails at
\* startup, and then before the handlers are set up; no failure of another
\* component at startup and no failure of a handler later halts it
C33_OnlyStoreInitHalts ==
    /\ Halted => stPc = "exited" /\ stFailed = "store"
    /\ stFailed = "store" => stPc = "exited"

----------------------------------------------------------------------------
(* C34                                                                     *)

\* the gate of handlePhoto would let a photo of the user pass
GateOpen(u) == Serving /\ ~InFlight(isProcessing, u)

\* the flag of the user is cleared in this step
FlagCleared(u) == isProcessing[u] /\ ~isProcessing'[u]

\* C34: a submission that passed the gate eventually clears its user's
\* in-flight flag whatever its outcome, and once the flag is cleared the
\* user's next photo passes the gate
C34_FlagClearsAndNextIsAccepted ==
    /\ \A u \in Users : isProcessing[u] ~> ~isProcessing[u]
    /\ [][\A u \in Users : FlagCleared(u) => GateOpen(u)']_vars

----------------------------------------------------------------------------
(* C35                                                                     *)

\* request i is confirmed in this step: resetCurrentMonth is called
ConfirmedNow(i) ==
    /\ i <= Len(requests)
    /\ requests[i].reset = "none"
    /\ requests'[i].reset = "records"

\* C35: the month that a confirmed reset deletes is the month named in the
\* confirmation message, and the total it deletes is the total that message
\* showed, also when a session was accepted or the month rolled over between
\* the request and the confirm
C35_ConfirmDestroysWhatWasShown ==
    [][\A i \in 1..MaxRequests :
         ConfirmedNow(i) =>
            /\ requests'[i].month = requests[i].shownMonth
            /\ requests'[i].year = requests[i].shownYear
            /\ StoredTotal(monthly_totals,
                           <<requests[i].chatId, requests'[i].month,
                             requests'[i].year>>) = requests[i].shownTotal]_vars

----------------------------------------------------------------------------
(* C36, checked under SpecConfirm                                          *)

\* the requests whose listener is registered for the next callback_query
Live == { i \in 1..Len(requests) : requests[i].listening }

\* C36: at most one confirmation is live per chat, also after the reset
\* command is issued again while one is pending, and a single confirm
\* action invokes resetCurrentMonth at most once
C36_OnePendingPerChat ==
    [][/\ \A i \in Live' : \A j \in Live' :
             i # j => requests'[i].chatId # requests'[j].chatId
       /\ Cardinality({ i \in 1..MaxPending : ConfirmedNow(i) }) <= 1]_vars

----------------------------------------------------------------------------
(* C37, checked under SpecStore                                            *)

\* the calls so far were made one after the other and none was rejected
InSequence == callLog.solo /\ faults = 0

\* the step settles the SELECT of the checkDuplicateRecord of caller u
CheckResolves(u) ==
    /\ db[u].op = "check"
    /\ db[u].pc = "select"
    /\ db'[u].pc = "resolved"

\* C37: for a session that a resetCurrentMonth removed and that is handed
\* in again, checkDuplicateRecord resolves false, and when addParkingRecord
\* has resolved for it the total of its month is exactly the session's
\* minutes
C37_ResubmissionAfterResetIsRecorded ==
    [][\A u \in Users :
         /\ (CheckResolves(u) /\ InSequence /\ CallKey(u) \in removed)
               => ~db'[u].duplicate
         /\ (AddCompletes(u) /\ InSequence /\ db[u].again)
               => StoredTotal(monthly_totals', StartKey(u))
                     = PlusArguments(ZeroTotal, db[u].args)]_vars

\* the session of 23 August was added, removed by a reset of August and
\* added again: the total of August is its 145 minutes
C37_Witness ==
    \E u \in Users :
        /\ db[u].op = "add"
        /\ db[u].pc = "resolved"
        /\ db[u].again
        /\ db[u].args = SessionA
        /\ InSequence
        /\ lastID = 2
        /\ Cardinality(parking_records) = 1
        /\ StoredTotal(monthly_totals, StartKey(u))
              = [total |-> 145, day |-> 85, night |-> 60]

----------------------------------------------------------------------------
(* C38, checked under SpecStore                                            *)

\* C38 as stated: whenever no call is in progress (the calls were made one
\* after the other and none was rejected), a chat whose current month total
\* is zero has no session stored for the current month, so that after
\* "nothing to reset" no stored session makes a submission Duplicate
C38_ZeroTotalMeansNoSessions ==
    (AllAtRest /\ InSequence) =>
        \A c \in Chats :
            getCurrentMonthTotal(monthly_totals, c, now).total = 0
                => SessionsOf(parking_records, CurrentKey(c)) = {}

----------------------------------------------------------------------------
(* C39, checked under SpecSplitAny                                         *)

\* C39: for end < start the loop body never runs and the result is 0 day,
\* 0 night and 0 total minutes, whatever the clock times (23:00 to 01:00 of
\* the same date is not read as crossing midnight); for every input the
\* buckets are never negative
C39_ReversedIntervalIsZero ==
    /\ sDay >= 0 /\ sNight >= 0
    /\ sEnd < sStart =>
          /\ sIter = 0
          /\ sCurrent = sStart
          /\ sDay = 0 /\ sNight = 0
          /\ SplitDone =>
                SplitResult(sDay, sNight)
                   = [dayMinutes |-> 0, nightMinutes |-> 0, totalMinutes |-> 0]

\* the split from a late evening hour back to an early hour of the same day
\* has returned
C39_Witness ==
    /\ SplitDone
    /\ sEnd < sStart
    /\ sStart \div SecPerDay = sEnd \div SecPerDay
    /\ getHours(sStart) >= 22 /\ getHours(sEnd) < DayStartHour
    /\ SplitResult(sDay, sNight).totalMinutes = 0

----------------------------------------------------------------------------
(* C40, checked under SpecSplit                                            *)

\* the 00:00 and 08:00 boundaries strictly between start and end
BoundariesInside(start, end) ==
    { b \in { d * SecPerDay + h * SecPerHour :
                d \in (start \div SecPerDay)..(end \div SecPerDay),
                h \in {0, DayStartHour} } :
        start < b /\ b < end }

\* the whole minutes of the interval that the split does not count
Shortfall == ((sEnd - sStart) \div SecPerMinute) - (sDay + sNight)

\* C40: for instants given to the second and start <= end, the day and night
\* minutes together never exceed the whole minutes of the interval, and fall
\* short of them by at most the number of 00:00 and 08:00 boundaries
\* strictly inside the interval
C40_TruncationNeverOverCounts ==
    (SplitDone /\ sStart <= sEnd) =>
        /\ Shortfall >= 0
        /\ Shortfall <= Cardinality(BoundariesInside(sStart, sEnd))

\* a split over several boundaries, neither instant on a whole minute, has
\* lost a minute
C40_Witness ==
    /\ SplitDone
    /\ ~WholeMinute(sStart) /\ ~WholeMinute(sEnd)
    /\ Cardinality(BoundariesInside(sStart, sEnd)) >= 2
    /\ Shortfall = 1

====
